---- MODULE Spec2Model ----
(***************************************************************************)
(* Model of the LocalMock plugin:                                          *)
(*   src/src/utils/llmClient.js    the resolver (layer traversal), the     *)
(*                                 generator (generateMockData) and        *)
(*                                 testConnection                          *)
(*   src/src/utils/dataInjector.js the injector and validateData           *)
(*   src/src/my-command.js         the settings, sanitizeErrorMessage,     *)
(*                                 the handlers of the window's events     *)
(*                                 and the AbortController polyfill        *)
(*                                                                         *)
(* The document is a heap of layer objects addressed by index; a layer's   *)
(* `layers` field is the sequence of the indices of its children, so that  *)
(* in-place mutation of a layer is an update of one heap cell.  Strings    *)
(* are sequences of one-character strings, so that startsWith, substring   *)
(* and String() are computed rather than assumed.                          *)
(***************************************************************************)
EXTENDS Integers, Sequences, FiniteSets, TLC

(***************************************************************************)
(* Bounds of the model.                                                    *)
(***************************************************************************)
\* The elements of a document: its layers, their overrides and the null
\* entry of the selection together.
MaxElements == 3

(***************************************************************************)
(* JavaScript values.  A value is a record with a type tag t, a string     *)
(* payload s (characters) and a numeric payload n; the payload a type      *)
(* does not use is empty / zero.                                           *)
(***************************************************************************)
Undefined == [t |-> "undefined", s |-> <<>>, n |-> 0]
Null == [t |-> "null", s |-> <<>>, n |-> 0]
NaN == [t |-> "nan", s |-> <<>>, n |-> 0]
Str(chars) == [t |-> "string", s |-> chars, n |-> 0]
Num(k) == [t |-> "number", s |-> <<>>, n |-> k]

\* JavaScript's === on the values above (NaN is not equal to itself).
StrictEq(x, y) == x.t = y.t /\ x.t # "nan" /\ x.s = y.s /\ x.n = y.n

Digit(d) == <<"0", "1", "2", "3", "4", "5", "6", "7", "8", "9">>[d + 1]

RECURSIVE Digits(_)
Digits(k) == IF k < 10 THEN <<Digit(k)>> ELSE Append(Digits(k \div 10), Digit(k % 10))

\* String(value): the string form of a value, as a sequence of characters.
String(v) ==
  CASE v.t = "string" -> v.s
    [] v.t = "number" -> IF v.n < 0 THEN <<"-">> \o Digits(-v.n) ELSE Digits(v.n)
    [] v.t = "null" -> <<"n", "u", "l", "l">>
    [] v.t = "undefined" -> <<"u", "n", "d", "e", "f", "i", "n", "e", "d">>
    [] OTHER -> <<"N", "a", "N">>

(***************************************************************************)
(* Layer traversal (the resolver).                                         *)
(***************************************************************************)
\* isVariableLayer(name): name && typeof name === 'string' && name.startsWith('$')
isVariableLayer(name) == name.t = "string" /\ Len(name.s) > 0 /\ name.s[1] = "$"

\* extractVariableName(name): name.startsWith('$') ? name.substring(1) : name
extractVariableName(name) ==
  IF Len(name.s) > 0 /\ name.s[1] = "$" THEN Tail(name.s) ELSE name.s

\* The binding pushed for a layer whose own name is a variable name.
TextBinding(heap, id) ==
  [layer |-> id, variableName |-> extractVariableName(heap[id].name),
   type |-> heap[id].type, override |-> 0, overrideId |-> Undefined]

\* The binding pushed for the k-th override of a symbol instance.
OverrideBinding(heap, id, k) ==
  [layer |-> id, variableName |-> extractVariableName(heap[id].overrides[k].affectedLayer),
   type |-> "SymbolOverride", override |-> k, overrideId |-> heap[id].overrides[k].id]

\* layer.overrides.forEach(...): the bindings of overrides k.. of layer id.
RECURSIVE OverrideBindings(_, _, _, _)
OverrideBindings(heap, id, k, results) ==
  IF k > Len(heap[id].overrides) THEN results
  ELSE OverrideBindings(heap, id, k + 1,
         IF isVariableLayer(heap[id].overrides[k].affectedLayer)
         THEN Append(results, OverrideBinding(heap, id, k))
         ELSE results)

\* A traversal that descends into the children before it scans the overrides.
RECURSIVE FindVariableLayersChildrenFirst(_, _, _, _)
FindVariableLayersChildrenFirst(heap, list, i, results) ==
  IF i > Len(list) THEN results
  ELSE IF list[i] = 0 THEN FindVariableLayersChildrenFirst(heap, list, i + 1, results)
  ELSE
    LET id == list[i]
        own == IF isVariableLayer(heap[id].name)
               THEN Append(results, TextBinding(heap, id)) ELSE results
        sub == IF Len(heap[id].layers) > 0
               THEN FindVariableLayersChildrenFirst(heap, heap[id].layers, 1, own) ELSE own
        ovr == IF heap[id].type = "SymbolInstance"
               THEN OverrideBindings(heap, id, 1, sub) ELSE sub
    IN FindVariableLayersChildrenFirst(heap, list, i + 1, ovr)

\* findVariableLayers(layers, results) on an array of layers (0 is a
\* null / undefined entry), from entry i on.
RECURSIVE FindVariableLayersFrom(_, _, _, _)
FindVariableLayersFrom(heap, list, i, results) ==
  IF i > Len(list) THEN results
  ELSE IF list[i] = 0 THEN FindVariableLayersFrom(heap, list, i + 1, results)
  ELSE
    LET id == list[i]
        own == IF isVariableLayer(heap[id].name)
               THEN Append(results, TextBinding(heap, id)) ELSE results
        ovr == IF heap[id].type = "SymbolInstance"
               THEN OverrideBindings(heap, id, 1, own) ELSE own
        sub == IF Len(heap[id].layers) > 0
               THEN FindVariableLayersFrom(heap, heap[id].layers, 1, ovr) ELSE ovr
    IN FindVariableLayersFrom(heap, list, i + 1, sub)

\* The `layers` argument is either an array or a single layer.
AsArray(arg) == IF arg.isArray THEN arg.items ELSE <<arg.items[1]>>

findVariableLayers(heap, arg) == FindVariableLayersFrom(heap, AsArray(arg), 1, <<>>)

\* variableLayers.map(item => item.variableName)
VariableNamesOf(variableLayers) ==
  [i \in 1..Len(variableLayers) |-> variableLayers[i].variableName]

\* new Set(iterable): each element is added unless the set already has it;
\* a set keeps its elements in insertion order.
RECURSIVE NewSet(_, _, _)
NewSet(items, i, set) ==
  IF i > Len(items) THEN set
  ELSE NewSet(items, i + 1,
         IF \E j \in 1..Len(set) : set[j] = items[i] THEN set
         ELSE Append(set, items[i]))

\* The names of all bindings, one per binding.
extractVariableNamesPerBinding(heap, arg) ==
  VariableNamesOf(findVariableLayers(heap, arg))

\* extractVariableNames(layers): Array.from(new Set(names of the bindings))
extractVariableNames(heap, arg) ==
  NewSet(VariableNamesOf(findVariableLayers(heap, arg)), 1, <<>>)

(***************************************************************************)
(* Data injection.                                                         *)
(***************************************************************************)
EmptyMap == [key \in {} |-> Undefined]

\* data[variableName], for data that is an object or a primitive; the
\* model's variable names are never names of built-in properties.
Lookup(data, key) ==
  IF data.t = "object" /\ key \in DOMAIN data.m THEN data.m[key] ELSE Undefined

\* data[variableName] raises a TypeError when data is null or undefined.
LookupThrows(data) == data.t \in {"null", "undefined"}

\* An injectTextLayer that stores the value without converting it.
injectTextLayerRaw(heap, id, value) ==
  IF heap[id].type = "Text"
  THEN [ok |-> TRUE,
        heap |-> [heap EXCEPT ![id].text = value.s],
        writes |-> <<[layer |-> id, override |-> 0, value |-> value.s]>>]
  ELSE [ok |-> FALSE, heap |-> heap, writes |-> <<>>]

\* An injectTextLayer that assigns the text before it looks at the kind.
injectTextLayerUnchecked(heap, id, value) ==
  [ok |-> heap[id].type = "Text",
   heap |-> [heap EXCEPT ![id].text = String(value)],
   writes |-> <<[layer |-> id, override |-> 0, value |-> String(value)]>>]

\* injectTextLayer(layer, value): [ok, heap, writes] where writes is the
\* sequence of slots assigned by the call.
injectTextLayer(heap, id, value) ==
  IF heap[id].type = "Text"
  THEN [ok |-> TRUE,
        heap |-> [heap EXCEPT ![id].text = String(value)],
        writes |-> <<[layer |-> id, override |-> 0, value |-> String(value)]>>]
  ELSE [ok |-> FALSE, heap |-> heap, writes |-> <<>>]

\* layer.overrides.find(o => o.id === overrideId): the index of the first
\* override with that identifier, 0 if there is none.
FindOverride(overrides, overrideId) ==
  LET hits == {k \in 1..Len(overrides) : StrictEq(overrides[k].id, overrideId)}
  IN IF hits = {} THEN 0 ELSE CHOOSE k \in hits : \A j \in hits : k <= j

\* injectSymbolOverride(layer, overrideInfo, value)
injectSymbolOverride(heap, item, value) ==
  LET id == item.layer
      k == FindOverride(heap[id].overrides, item.overrideId)
  IN IF heap[id].type # "SymbolInstance" THEN [ok |-> FALSE, heap |-> heap, writes |-> <<>>]
     ELSE IF k = 0 THEN [ok |-> FALSE, heap |-> heap, writes |-> <<>>]
     ELSE [ok |-> TRUE,
           heap |-> [heap EXCEPT ![id].overrides[k].value = String(value)],
           writes |-> <<[layer |-> id, override |-> k, value |-> String(value)]>>]

EmptyResults ==
  [totalUpdated |-> 0, successCount |-> 0, failureCount |-> 0,
   errors |-> <<>>, details |-> <<>>]

\* A call in progress: the heap, the report under construction, the slots
\* written so far (with the index of the binding that wrote them) and
\* whether an exception has left the call.
Running(heap) == [heap |-> heap, results |-> EmptyResults, writes |-> <<>>, threw |-> FALSE]

TagWrites(ws, i) ==
  [j \in 1..Len(ws) |-> [binding |-> i, layer |-> ws[j].layer,
                         override |-> ws[j].override, value |-> ws[j].value]]

\* The body of variableLayers.forEach(item => ...) for binding i.
InjectItem(st, data, item, i) ==
  IF LookupThrows(data) THEN [st EXCEPT !.threw = TRUE]
  ELSE
    LET value == Lookup(data, item.variableName)
        layerName == st.heap[item.layer].name
    IN IF value.t \in {"undefined", "null"}
       THEN [st EXCEPT !.results.details = Append(@,
               [layerName |-> layerName, variableName |-> item.variableName,
                value |-> Undefined, status |-> "skipped", reason |-> "No data available"])]
       ELSE
         LET r == IF item.type = "SymbolOverride"
                  THEN injectSymbolOverride(st.heap, item, value)
                  ELSE injectTextLayer(st.heap, item.layer, value)
         IN IF r.ok
            THEN [heap |-> r.heap,
                  results |-> [st.results EXCEPT
                     !.successCount = @ + 1,
                     !.details = Append(@,
                        [layerName |-> layerName, variableName |-> item.variableName,
                         value |-> value, status |-> "success", reason |-> ""])],
                  writes |-> st.writes \o TagWrites(r.writes, i),
                  threw |-> FALSE]
            ELSE [heap |-> r.heap,
                  results |-> [st.results EXCEPT
                     !.failureCount = @ + 1,
                     !.details = Append(@,
                        [layerName |-> layerName, variableName |-> item.variableName,
                         value |-> Undefined, status |-> "failed", reason |-> "Injection failed"])],
                  writes |-> st.writes \o TagWrites(r.writes, i),
                  threw |-> FALSE]

\* A loop that a failed binding ends, as an uncaught write error would.
RECURSIVE InjectLoopAborting(_, _, _, _)
InjectLoopAborting(st, data, variableLayers, i) ==
  IF i > Len(variableLayers) \/ st.threw \/ st.results.failureCount > 0 THEN st
  ELSE InjectLoopAborting(InjectItem(st, data, variableLayers[i], i), data, variableLayers, i + 1)

\* variableLayers.forEach(...) from binding i on; an exception ends it.
RECURSIVE InjectLoop(_, _, _, _)
InjectLoop(st, data, variableLayers, i) ==
  IF i > Len(variableLayers) \/ st.threw THEN st
  ELSE InjectLoop(InjectItem(st, data, variableLayers[i], i), data, variableLayers, i + 1)

\* An injectData without the early return for an empty binding list.
injectDataNoEarlyReturn(heap, arg, data) ==
  LET st == InjectLoop(Running(heap), data, findVariableLayers(heap, arg), 1)
  IN IF st.threw THEN st
     ELSE [st EXCEPT !.results.totalUpdated = st.results.successCount]

\* injectData(layers, data)
injectData(heap, arg, data) ==
  LET variableLayers == findVariableLayers(heap, arg)
  IN IF Len(variableLayers) = 0
     THEN [Running(heap) EXCEPT !.results.errors = <<"No variable layers found to update">>]
     ELSE LET st == InjectLoop(Running(heap), data, variableLayers, 1)
          IN IF st.threw THEN st
             ELSE [st EXCEPT !.results.totalUpdated = st.results.successCount]

\* The entry previewInjection builds for one binding.
PreviewItem(heap, data, item) ==
  LET value == Lookup(data, item.variableName)
  IN [layerName |-> heap[item.layer].name,
      layerType |-> item.type,
      variableName |-> item.variableName,
      currentValue |-> IF item.type = "Text" THEN heap[item.layer].text
                       ELSE <<"(", "s", "y", "m", "b", "o", "l", " ",
                              "o", "v", "e", "r", "r", "i", "d", "e", ")">>,
      newValue |-> IF value.t # "undefined" THEN String(value)
                   ELSE <<"(", "n", "o", " ", "d", "a", "t", "a", ")">>,
      willUpdate |-> value.t # "undefined"]

\* A preview computed by performing the injection.
previewInjectionWriting(heap, arg, data) ==
  LET variableLayers == findVariableLayers(heap, arg)
  IN IF Len(variableLayers) > 0 /\ LookupThrows(data)
     THEN [threw |-> TRUE, preview |-> <<>>, heap |-> heap]
     ELSE [threw |-> FALSE,
           preview |-> [i \in 1..Len(variableLayers) |->
                          PreviewItem(heap, data, variableLayers[i])],
           heap |-> injectData(heap, arg, data).heap]

\* previewInjection(layers, data): the sequence returned (none when the
\* lookup raises) and the heap after the call.
previewInjection(heap, arg, data) ==
  LET variableLayers == findVariableLayers(heap, arg)
  IN IF Len(variableLayers) > 0 /\ LookupThrows(data)
     THEN [threw |-> TRUE, preview |-> <<>>, heap |-> heap]
     ELSE [threw |-> FALSE,
           preview |-> [i \in 1..Len(variableLayers) |->
                          PreviewItem(heap, data, variableLayers[i])],
           heap |-> heap]

(***************************************************************************)
(* The inputs: documents and data values.                                  *)
(***************************************************************************)
(* Text.  A text is a sequence of atoms: a character, or one of the words  *)
(* the code fence (three backticks), "json", "js", "JSON", "fetch",        *)
(* "Fetch", "null" and the fixed parts of the messages, none of which the  *)
(* operations below ever split.                                            *)
(***************************************************************************)
\* The code fence, three backticks.
Fence == "<fence>"

At(text, i) == IF i \in 1..Len(text) THEN text[i] ELSE ""

IsSpace(a) == a \in {" ", "\n"}

RECURSIVE TrimStart(_)
TrimStart(text) ==
  IF Len(text) > 0 /\ IsSpace(text[1]) THEN TrimStart(Tail(text)) ELSE text

RECURSIVE TrimEnd(_)
TrimEnd(text) ==
  IF Len(text) > 0 /\ IsSpace(text[Len(text)])
  THEN TrimEnd(SubSeq(text, 1, Len(text) - 1)) ELSE text

\* text.trim()
trim(text) == TrimEnd(TrimStart(text))

\* text.startsWith(atom)
startsWith(text, atom) == At(text, 1) = atom

LowerAtom(a) ==
  CASE a = "Fetch" -> "fetch"
    [] a = "JSON" -> "json"
    [] OTHER -> a

\* text.toLowerCase()
toLowerCase(text) == [i \in 1..Len(text) |-> LowerAtom(text[i])]

\* text.includes(atom)
includes(text, atom) == \E i \in 1..Len(text) : text[i] = atom

\* text.replace(/<fence>json\n?/g, '')
RECURSIVE ReplaceJsonFences(_, _)
ReplaceJsonFences(text, i) ==
  IF i > Len(text) THEN <<>>
  ELSE IF text[i] = Fence /\ At(text, i + 1) = "json"
       THEN ReplaceJsonFences(text, IF At(text, i + 2) = "\n" THEN i + 3 ELSE i + 2)
       ELSE <<text[i]>> \o ReplaceJsonFences(text, i + 1)

\* text.replace(/<fence>\n?/g, '')
RECURSIVE ReplaceFences(_, _)
ReplaceFences(text, i) ==
  IF i > Len(text) THEN <<>>
  ELSE IF text[i] = Fence
       THEN ReplaceFences(text, IF At(text, i + 1) = "\n" THEN i + 2 ELSE i + 1)
       ELSE <<text[i]>> \o ReplaceFences(text, i + 1)

(***************************************************************************)
(* JSON.parse, for documents that are an object of scalar members, an      *)
(* empty array or a scalar (a string, a number or null).  A parsed value   *)
(* is [t, m, v]: m holds the members of an object, v the scalar.           *)
(***************************************************************************)
DigitAtoms == {"0", "1", "2", "3", "4", "5", "6", "7", "8", "9"}
DigitValue(a) == CHOOSE d \in 0..9 : Digit(d) = a

SyntaxError == [ok |-> FALSE, value |-> Undefined, i |-> 0]

RECURSIVE SkipSpace(_, _)
SkipSpace(text, i) == IF IsSpace(At(text, i)) THEN SkipSpace(text, i + 1) ELSE i

\* The index of the quote that closes the string opened before i, or 0.
RECURSIVE ClosingQuote(_, _)
ClosingQuote(text, i) ==
  IF i > Len(text) \/ text[i] = "\n" THEN 0
  ELSE IF text[i] = "\"" THEN i
  ELSE ClosingQuote(text, i + 1)

RECURSIVE ParseNumber(_, _, _)
ParseNumber(text, i, k) ==
  IF At(text, i) \in DigitAtoms
  THEN ParseNumber(text, i + 1, 10 * k + DigitValue(text[i]))
  ELSE [ok |-> TRUE, value |-> Num(k), i |-> i]

ParseScalar(text, i) ==
  IF At(text, i) = "\""
  THEN LET j == ClosingQuote(text, i + 1)
       IN IF j = 0 THEN SyntaxError
          ELSE [ok |-> TRUE, value |-> Str(SubSeq(text, i + 1, j - 1)), i |-> j + 1]
  ELSE IF At(text, i) \in DigitAtoms THEN ParseNumber(text, i, 0)
  ELSE IF At(text, i) = "null" THEN [ok |-> TRUE, value |-> Null, i |-> i + 1]
  ELSE SyntaxError

\* The members of an object from index i on; a later member replaces an
\* earlier one of the same key.
RECURSIVE ParseMembers(_, _, _)
ParseMembers(text, i, m) ==
  LET key == IF At(text, i) = "\"" THEN ParseScalar(text, i) ELSE SyntaxError
      colon == IF key.ok THEN SkipSpace(text, key.i) ELSE 0
      val == IF key.ok /\ At(text, colon) = ":"
             THEN ParseScalar(text, SkipSpace(text, colon + 1)) ELSE SyntaxError
      next == IF val.ok THEN SkipSpace(text, val.i) ELSE 0
      members == [k \in DOMAIN m \cup {key.value.s} |->
                    IF k = key.value.s THEN val.value ELSE m[k]]
  IN IF ~val.ok THEN SyntaxError
     ELSE IF At(text, next) = "}" THEN [ok |-> TRUE, value |-> members, i |-> next + 1]
     ELSE IF At(text, next) = ","
          THEN ParseMembers(text, SkipSpace(text, next + 1), members)
     ELSE SyntaxError

Parsed(t, m, v) == [t |-> t, m |-> m, v |-> v]

ParseValue(text, i) ==
  IF At(text, i) = "{"
  THEN LET j == SkipSpace(text, i + 1)
           r == IF At(text, j) = "}" THEN [ok |-> TRUE, value |-> EmptyMap, i |-> j + 1]
                ELSE ParseMembers(text, j, EmptyMap)
       IN IF r.ok THEN [ok |-> TRUE, value |-> Parsed("object", r.value, Undefined), i |-> r.i]
          ELSE SyntaxError
  ELSE IF At(text, i) = "["
  THEN LET j == SkipSpace(text, i + 1)
       IN IF At(text, j) = "]"
          THEN [ok |-> TRUE, value |-> Parsed("array", EmptyMap, Undefined), i |-> j + 1]
          ELSE SyntaxError
  ELSE LET r == ParseScalar(text, i)
       IN IF r.ok THEN [ok |-> TRUE, value |-> Parsed(r.value.t, EmptyMap, r.value), i |-> r.i]
          ELSE SyntaxError

\* JSON.parse(text): ok is FALSE when it throws a SyntaxError.
JSONParse(text) ==
  LET r == ParseValue(text, SkipSpace(text, 1))
  IN IF r.ok /\ SkipSpace(text, r.i) = Len(text) + 1 THEN [ok |-> TRUE, value |-> r.value]
     ELSE [ok |-> FALSE, value |-> Undefined]

(***************************************************************************)
(* The generator: generateMockData.                                        *)
(***************************************************************************)
DEFAULT_ENDPOINT == <<"http://localhost:11434/api/generate">>
REQUEST_TIMEOUT == 60000

\* An error object.
Err(name, message) == [name |-> name, message |-> message]
NoError == Err("", <<>>)

\* !value, for a primitive value
FalsyValue(v) ==
  \/ v.t \in {"undefined", "null", "nan"}
  \/ v.t = "string" /\ v.s = <<>>
  \/ v.t = "number" /\ v.n = 0

\* const { keys, prompt, endpoint = DEFAULT_ENDPOINT } = config
EndpointOf(config) ==
  IF config.endpoint.t = "undefined" THEN DEFAULT_ENDPOINT ELSE config.endpoint.s

\* !keys || !Array.isArray(keys) || keys.length === 0
KeysRejected(keys) == keys.t # "array" \/ Len(keys.items) = 0

\* !prompt || typeof prompt !== 'string' || prompt.trim() === ''
PromptRejected(prompt) ==
  FalsyValue(prompt) \/ prompt.t # "string" \/ trim(prompt.s) = <<>>

\* An input validation that tests the keys alone.
InputErrorKeysOnly(config) ==
  IF KeysRejected(config.keys)
  THEN Err("Error", <<"Keys array is required and must not be empty">>)
  ELSE NoError

\* The error thrown by the validation of the inputs, NoError when they pass.
InputError(config) ==
  IF KeysRejected(config.keys)
  THEN Err("Error", <<"Keys array is required and must not be empty">>)
  ELSE IF PromptRejected(config.prompt)
  THEN Err("Error", <<"Prompt is required and must be a non-empty string">>)
  ELSE NoError

\* A handler that has no branch for the abort.
CatchWithoutAbort(error, endpoint) ==
  IF error.name = "TypeError" \/ includes(toLowerCase(error.message), "fetch")
  THEN Err("Error", <<"Failed to connect to Ollama at ">> \o endpoint
                     \o <<". Please ensure Ollama is running and accessible.">>)
  ELSE error

\* catch (error) { ... }: the error generateMockData throws for an error
\* raised inside its try block.
Catch(error, endpoint) ==
  IF error.name = "AbortError"
  THEN Err("Error", <<"Request timeout after ">> \o Digits(REQUEST_TIMEOUT \div 1000)
                     \o <<" seconds. Please check if Ollama is running.">>)
  ELSE IF error.name = "TypeError" \/ includes(toLowerCase(error.message), "fetch")
  THEN Err("Error", <<"Failed to connect to Ollama at ">> \o endpoint
                     \o <<". Please ensure Ollama is running and accessible.">>)
  ELSE error

\* The error of a reply whose status is not a success:
\* HTTP ${response.status}: ${errorText || response.statusText}
HttpError(response) ==
  Err("Error", <<"HTTP ">> \o Digits(response.status) \o <<": ">>
               \o (IF response.text # <<>> THEN response.text ELSE response.statusText))

\* The outcome of reading the body of a successful reply up to the test of
\* data.response: the error raised, NoError when the text is there.
EnvelopeError(response) ==
  IF ~response.isJson THEN Err("SyntaxError", <<"Unexpected token">>)
  ELSE IF response.json.t \in {"null", "undefined"}
  THEN Err("TypeError", <<"Cannot read properties of null">>)
  ELSE IF FalsyValue(response.json.response)
  THEN Err("Error", <<"Invalid response from Ollama: missing response field">>)
  ELSE NoError

\* The cleaning of the generated text before it is parsed.
CleanText(raw) ==
  LET jsonString == trim(raw)
  IN IF startsWith(jsonString, Fence)
     THEN ReplaceFences(ReplaceJsonFences(jsonString, 1), 1)
     ELSE jsonString

ParseFailed(message, raw) ==
  Err("Error", <<"Failed to parse JSON from LLM response: ">> \o message
               \o <<"\nResponse: ">> \o raw)

\* keys.filter(key => !(key in generatedData))
MissingFrom(keys, generatedData) ==
  SelectSeq(keys, LAMBDA key : key \notin DOMAIN generatedData.m)

\* The synchronous rest of generateMockData once data.response is known to
\* be truthy: the parse, the test of the keys and the return.  The result
\* is [error, value, warned]; error is the error raised inside the try
\* block (NoError when the value is returned), warned the keys named in
\* the warning.
ParseResponse(response, keys) ==
  LET raw == response.json.response
      parsed == IF raw.t = "string" THEN JSONParse(CleanText(raw.s))
                ELSE [ok |-> FALSE, value |-> Undefined]
      message == IF raw.t = "string" THEN <<"Unexpected token">>
                 ELSE <<"data.response.trim is not a function">>
  IN IF ~parsed.ok
     THEN [error |-> ParseFailed(message, String(raw)), value |-> Undefined, warned |-> <<>>]
     ELSE IF parsed.value.t \notin {"object", "array"}
     THEN [error |-> Err("TypeError", <<"Cannot use 'in' operator">>),
           value |-> Undefined, warned |-> <<>>]
     ELSE [error |-> NoError, value |-> parsed.value,
           warned |-> MissingFrom(keys, parsed.value)]

(***************************************************************************)
(* Data validation.                                                        *)
(***************************************************************************)
\* typeof data (typeof null is 'object', typeof [] is 'object')
TypeOf(data) == IF data.t \in {"object", "array", "null"} THEN "object" ELSE data.t

\* !data is true of null and undefined; the primitives of the data domain
\* (a non-empty string, a non-zero number) are truthy.
Falsy(data) == data.t \in {"null", "undefined"}

\* key in data, for an object or an array
In(key, data) == key \in DOMAIN data.m

\* requiredKeys.filter(key => !(key in data))
MissingKeys(data, requiredKeys) == SelectSeq(requiredKeys, LAMBDA key : ~In(key, data))

NotAnObject ==
  [isValid |-> FALSE, message |-> "Data must be an object",
   hasMissingKeys |-> FALSE, missingKeys |-> <<>>]

\* A validation that tests typeof data alone.
validateDataTypeofOnly(data, requiredKeys) ==
  IF TypeOf(data) # "object" THEN NotAnObject
  ELSE LET missingKeys == MissingKeys(data, requiredKeys)
       IN IF Len(missingKeys) > 0
          THEN [isValid |-> FALSE, message |-> "Missing required keys",
                hasMissingKeys |-> TRUE, missingKeys |-> missingKeys]
          ELSE [isValid |-> TRUE, message |-> "Data is valid",
                hasMissingKeys |-> FALSE, missingKeys |-> <<>>]

\* validateData(data, requiredKeys); hasMissingKeys tells whether the
\* result has a missingKeys property.
validateData(data, requiredKeys) ==
  IF Falsy(data) \/ TypeOf(data) # "object" THEN NotAnObject
  ELSE LET missingKeys == MissingKeys(data, requiredKeys)
       IN IF Len(missingKeys) > 0
          THEN [isValid |-> FALSE, message |-> "Missing required keys",
                hasMissingKeys |-> TRUE, missingKeys |-> missingKeys]
          ELSE [isValid |-> TRUE, message |-> "Data is valid",
                hasMissingKeys |-> FALSE, missingKeys |-> <<>>]

(***************************************************************************)
LayerNames == {Str(<<"$", "a">>), Str(<<"$">>), Str(<<"p">>)}
LayerTypes == {"Text", "SymbolInstance"}
OverrideIds == {Str(<<"i">>), Undefined, NaN}
OldText == <<"o">>
OldValue == <<"v">>

Overrides == [id : OverrideIds, affectedLayer : LayerNames, value : {OldValue}]

\* Layer a is layer k or one of its ancestors (0: the top level) under the
\* parent assignment par.
RECURSIVE IsAncestorOrSelf(_, _, _)
IsAncestorOrSelf(par, a, k) ==
  \/ a = k
  \/ k # 0 /\ IsAncestorOrSelf(par, a, par[k])

\* The children of layer id (0: the top level), in ascending order of index.
RECURSIVE ChildrenFrom(_, _, _, _)
ChildrenFrom(par, n, id, k) ==
  IF k > n THEN <<>>
  ELSE IF par[k] = id THEN <<k>> \o ChildrenFrom(par, n, id, k + 1)
  ELSE ChildrenFrom(par, n, id, k + 1)

\* The overrides of layer id among the overrides ov, owned as owner says.
RECURSIVE OverridesOf(_, _, _, _)
OverridesOf(ov, owner, id, j) ==
  IF j > Len(ov) THEN <<>>
  ELSE IF owner[j] = id THEN <<ov[j]>> \o OverridesOf(ov, owner, id, j + 1)
  ELSE OverridesOf(ov, owner, id, j + 1)

\* The parent assignments of n layers numbered in pre-order: the parent
\* of a layer is the layer before it or an ancestor of that layer, and
\* Text layers have no children.
Parents(n, types) ==
  {par \in [1..n -> 0..n] :
     \A id \in 1..n :
       /\ par[id] < id
       /\ IsAncestorOrSelf(par, par[id], id - 1)
       /\ par[id] # 0 => types[par[id]] # "Text"}

\* The assignments of t overrides to the symbol instances among n layers,
\* in layer order.
Owners(n, t, types) ==
  {owner \in [1..t -> {id \in 1..n : types[id] = "SymbolInstance"}] :
     \A j \in 1..(t - 1) : owner[j] <= owner[j + 1]}

\* The document of n layers with the given names, types, parents and
\* overrides.
Document(n, names, types, par, ov, owner) ==
  [id \in 1..n |-> [name |-> names[id], type |-> types[id], text |-> OldText,
                    layers |-> ChildrenFrom(par, n, id, 1),
                    overrides |-> OverridesOf(ov, owner, id, 1)]]

\* The top-level layers of a document, in order.
RECURSIVE RootsFrom(_, _)
RootsFrom(heap, k) ==
  IF k > Len(heap) THEN <<>>
  ELSE IF \E id \in 1..Len(heap) : \E j \in 1..Len(heap[id].layers) : heap[id].layers[j] = k
  THEN RootsFrom(heap, k + 1)
  ELSE <<k>> \o RootsFrom(heap, k + 1)

\* The `layers` arguments for a document: the array of its top-level
\* layers, the single layer, and, when `room` allows one more element,
\* that array with a null entry in front.
Arguments(heap, room) ==
  LET roots == RootsFrom(heap, 1)
  IN {[isArray |-> TRUE, items |-> roots]}
     \cup (IF room > 0 THEN {[isArray |-> TRUE, items |-> <<0>> \o roots]} ELSE {})
     \cup (IF Len(roots) = 1 THEN {[isArray |-> FALSE, items |-> roots]} ELSE {})

KeyA == <<"a">>
KeyEmpty == <<>>
ValuesA == {Null, Num(42)}
ValuesEmpty == {Str(<<"Y">>)}

\* The data values: objects over the keys "a" and "", null (undefined
\* behaves the same) and a primitive string.
Objects ==
  { [t |-> "object", m |-> [key \in ks |-> IF key = KeyA THEN c[1] ELSE c[2]]] :
      ks \in SUBSET {KeyA, KeyEmpty}, c \in ValuesA \X ValuesEmpty }
DataValues ==
  Objects \cup {[t |-> "null", m |-> EmptyMap], [t |-> "string", m |-> EmptyMap]}

\* The values validateData is applied to: the above, undefined, an empty
\* array and a number.
ValidatedValues ==
  DataValues \cup {[t |-> "undefined", m |-> EmptyMap], [t |-> "array", m |-> EmptyMap],
                   [t |-> "number", m |-> EmptyMap]}

MaxRequiredKeys == 2
KeyB == <<"b">>
\* The requiredKeys arrays: up to MaxRequiredKeys of the keys "a", "", "b".
RequiredKeys == UNION {[1..k -> {KeyA, KeyEmpty, KeyB}] : k \in 0..MaxRequiredKeys}

MaxKeys == 2
\* The keys arrays: up to MaxKeys of the keys "a" and "b".
KeysArrays == UNION {[1..k -> {KeyA, KeyB}] : k \in 0..MaxKeys}
\* config.keys: an array, undefined, or a string.
KeysValues ==
  {[t |-> "array", items |-> ks] : ks \in KeysArrays}
    \cup {[t |-> "undefined", items |-> <<>>], [t |-> "string", items |-> <<>>]}
\* config.prompt: missing, a number, empty, blank, or a context.
Prompts == {Undefined, Num(5), Str(<<>>), Str(<<" ", "\n">>), Str(<<"p">>)}
Endpoints == {Undefined, Str(<<"http://custom:11434/api/generate">>)}
Configs == [keys : KeysValues, prompt : Prompts, endpoint : Endpoints]
NoConfig == [keys |-> [t |-> "undefined", items |-> <<>>], prompt |-> Undefined,
             endpoint |-> Undefined]

\* JSON documents: {"a": "v"}, {"a":"v","b":42}, {}, [], 42, null, "v",
\* {"a":"x<fence>y"} and "Fetch".
ValidDocuments ==
  { <<"{", "\"", "a", "\"", ":", " ", "\"", "v", "\"", "}">>,
    <<"{", "\"", "a", "\"", ":", "\"", "v", "\"", ",", "\"", "b", "\"", ":", "4", "2", "}">>,
    <<"{", "}">>,
    <<"[", "]">>,
    <<"4", "2">>,
    <<"null">>,
    <<"\"", "v", "\"">>,
    <<"{", "\"", "a", "\"", ":", "\"", "x", Fence, "y", "\"", "}">>,
    <<"\"", "Fetch", "\"">> }
\* Texts that are no JSON document.
InvalidDocuments ==
  { <<"This is not valid JSON">>,
    <<"I cannot ", "Fetch", " that">>,
    <<"{", "\"", "a", "\"", ":">> }
Tags == {"json", "js", "JSON", ""}
\* A document wrapped in a leading and a trailing code fence.
Fenced(tag, document) ==
  <<Fence>> \o (IF tag = "" THEN <<>> ELSE <<tag>>) \o <<"\n">> \o document \o <<"\n", Fence>>
GeneratedTexts ==
  ValidDocuments \cup InvalidDocuments
    \cup {Fenced(tag, d) : tag \in Tags, d \in ValidDocuments \cup InvalidDocuments}
    \cup {<<" ">> \o d \o <<"\n">> : d \in ValidDocuments}

\* The JSON bodies of a successful reply: null, a number, and objects
\* without a response field or with one that is null, empty, a number or a
\* generated text.
Envelopes ==
  {[t |-> "null", response |-> Undefined], [t |-> "number", response |-> Undefined]}
    \cup {[t |-> "object", response |-> v] : v \in {Undefined, Null, Str(<<>>), Num(5)}}
    \cup {[t |-> "object", response |-> Str(text)] : text \in GeneratedTexts}
NoEnvelope == [t |-> "undefined", response |-> Undefined]
StatusText(status) == IF status = 404 THEN <<"Not Found">> ELSE <<"Internal Server Error">>
ErrorTexts == {<<>>, <<"Server error">>, <<"could not ", "fetch", " the model">>}
\* The replies of the service.
Replies ==
  {[ok |-> FALSE, status |-> st, statusText |-> StatusText(st), text |-> text,
    isJson |-> FALSE, json |-> NoEnvelope] : st \in {404, 500}, text \in ErrorTexts}
    \cup {[ok |-> TRUE, status |-> 200, statusText |-> <<"OK">>, text |-> <<>>,
           isJson |-> FALSE, json |-> NoEnvelope]}
    \cup {[ok |-> TRUE, status |-> 200, statusText |-> <<"OK">>, text |-> <<>>,
           isJson |-> TRUE, json |-> envelope] : envelope \in Envelopes}
NoResponse ==
  [ok |-> FALSE, status |-> 0, statusText |-> <<>>, text |-> <<>>,
   isJson |-> FALSE, json |-> NoEnvelope]
\* The errors a fetch is rejected with when the transport fails.
Rejections ==
  { Err("TypeError", <<"Failed to ", "fetch">>),
    Err("TypeError", <<"Network request failed">>),
    Err("Error", <<"Network error">>),
    Err("Error", <<"connect ECONNREFUSED 127.0.0.1:11434">>),
    Err("FetchError", <<"request failed, reason: socket hang up">>) }
NoValue == Parsed("undefined", EmptyMap, Undefined)

NoDocument == <<>>
NoSelection == [isArray |-> TRUE, items |-> <<>>]
NoValidation ==
  [isValid |-> FALSE, message |-> "", hasMissingKeys |-> FALSE, missingKeys |-> <<>>]

(***************************************************************************)
(* Settings (src/src/my-command.js).  A stored settings value is a record  *)
(* with a type tag t and the four fields the plugin reads; a field that    *)
(* is absent from the stored object is Undefined.  A field value carries   *)
(* the entries of an array in `items`.                                     *)
(***************************************************************************)
Plain(v) == [t |-> v.t, s |-> v.s, n |-> v.n, items |-> <<>>]
Arr(items) == [t |-> "array", s |-> <<>>, n |-> 0, items |-> items]

\* !!value: an array is truthy, a primitive as FalsyValue says.
Truthy(v) == v.t = "array" \/ ~FalsyValue(v)

\* new URL(text) returns: the text starts with a scheme, "//" and a host.
\* Any other text makes the constructor throw.
ParsesAsURL(text) ==
  /\ Len(text) >= 3
  /\ text[1] \in {"http:", "https:"}
  /\ text[2] = "//"
  /\ text[3] \notin {"", "/", " "}

validateSettings(stored) ==
  IF stored.t # "object" THEN FALSE
  ELSE IF /\ Truthy(stored.endpoint) /\ stored.endpoint.t = "string"
          /\ ~ParsesAsURL(stored.endpoint.s) THEN FALSE
  ELSE IF Truthy(stored.model) /\ stored.model.t # "string" THEN FALSE
  ELSE IF Truthy(stored.lastPrompt) /\ stored.lastPrompt.t # "string" THEN FALSE
  ELSE IF Truthy(stored.lastKeys) /\ stored.lastKeys.t # "array" THEN FALSE
  ELSE IF /\ Truthy(stored.lastKeys)
          /\ \E i \in 1..Len(stored.lastKeys.items) : stored.lastKeys.items[i].t # "string"
       THEN FALSE
  ELSE TRUE

defaultSettings ==
  [endpoint |-> Plain(Str(DEFAULT_ENDPOINT)),
   model |-> Plain(Str(<<"llama3">>)),
   lastPrompt |-> Plain(Str(<<>>)),
   lastKeys |-> Arr(<<>>)]

SettingsFields == {"endpoint", "model", "lastPrompt", "lastKeys"}

\* { ...defaultSettings, ...stored }: a field the stored object has
\* replaces the default.
Spread(defaults, stored) ==
  [f \in SettingsFields |-> IF stored[f].t = "undefined" THEN defaults[f] ELSE stored[f]]

\* loadSettings(), where settingForKey returns `stored` or throws.
loadSettings(stored, throws) ==
  IF throws THEN defaultSettings
  ELSE IF stored.t # "undefined" /\ validateSettings(stored) THEN Spread(defaultSettings, stored)
  ELSE defaultSettings

\* The stored values: nothing, a string, and the objects over these fields.
StoredEndpoints ==
  { Plain(Undefined), Plain(Null), Plain(Num(42)), Plain(Str(<<>>)),
    Plain(Str(<<"http:", "//", "custom:11434", "/api/generate">>)),
    Plain(Str(<<"not a url">>)), Plain(Str(<<"http:", "//">>)) }
StoredModels == {Plain(Undefined), Plain(Str(<<"mistral">>)), Plain(Num(7)), Plain(Num(0))}
StoredPrompts == {Plain(Undefined), Plain(Str(<<"p">>)), Plain(Num(7)), Plain(Null)}
StoredKeys ==
  { Plain(Undefined), Arr(<<>>), Arr(<<Str(KeyA), Str(KeyB)>>), Arr(<<Str(KeyA), Num(1)>>),
    Plain(Str(<<"a,b">>)), Plain(Num(0)) }
StoredObjects ==
  [t : {"object"}, endpoint : StoredEndpoints, model : StoredModels,
   lastPrompt : StoredPrompts, lastKeys : StoredKeys]
NothingStored ==
  [t |-> "undefined", endpoint |-> Plain(Undefined), model |-> Plain(Undefined),
   lastPrompt |-> Plain(Undefined), lastKeys |-> Plain(Undefined)]
StoredValues == StoredObjects \cup {NothingStored, [NothingStored EXCEPT !.t = "string"]}
NoSettings == [f \in SettingsFields |-> Plain(Undefined)]

(***************************************************************************)
(* sanitizeErrorMessage (src/src/my-command.js).  The texts of this part   *)
(* are sequences of single characters.                                     *)
(***************************************************************************)
UnknownErrorMessage ==
  <<"A", "n", " ", "u", "n", "k", "n", "o", "w", "n", " ", "e", "r", "r",
      "o", "r", " ", "o", "c", "c", "u", "r", "r", "e", "d">>
OperationErrorMessage ==
  <<"A", "n", " ", "e", "r", "r", "o", "r", " ", "o", "c", "c", "u", "r",
      "r", "e", "d", " ", "d", "u", "r", "i", "n", "g", " ", "t", "h",
      "e", " ", "o", "p", "e", "r", "a", "t", "i", "o", "n">>
PathMark == <<"[", "p", "a", "t", "h", "]">>
RedactedMark == <<"[", "r", "e", "d", "a", "c", "t", "e", "d", "]">>

\* The length of the longest run of \S characters that starts at i.
RECURSIVE NonSpaceRun(_, _)
NonSpaceRun(text, i) ==
  IF i > Len(text) \/ IsSpace(text[i]) THEN 0 ELSE 1 + NonSpaceRun(text, i + 1)

\* The length of the longest run of \s characters that starts at i.
RECURSIVE SpaceRun(_, _)
SpaceRun(text, i) ==
  IF i > Len(text) \/ ~IsSpace(text[i]) THEN 0 ELSE 1 + SpaceRun(text, i + 1)

\* errorMessage.replace(/\/[^\s]+/g, '[path]'), from position i on.
RECURSIVE ReplaceUnixPaths(_, _)
ReplaceUnixPaths(text, i) ==
  IF i > Len(text) THEN <<>>
  ELSE IF text[i] = "/" /\ NonSpaceRun(text, i + 1) > 0
  THEN PathMark \o ReplaceUnixPaths(text, i + 1 + NonSpaceRun(text, i + 1))
  ELSE <<text[i]>> \o ReplaceUnixPaths(text, i + 1)

\* [A-Z]
IsUpper(c) == c \in {"A", "B", "C", "K", "S"}

\* sanitized.replace(/[A-Z]:\\[^\s]+/g, '[path]'), from position i on.
RECURSIVE ReplaceWindowsPaths(_, _)
ReplaceWindowsPaths(text, i) ==
  IF i > Len(text) THEN <<>>
  ELSE IF /\ IsUpper(text[i]) /\ At(text, i + 1) = ":" /\ At(text, i + 2) = "\\"
          /\ NonSpaceRun(text, i + 3) > 0
  THEN PathMark \o ReplaceWindowsPaths(text, i + 3 + NonSpaceRun(text, i + 3))
  ELSE <<text[i]>> \o ReplaceWindowsPaths(text, i + 1)

\* \w, over the characters of the texts: every character but these.
IsWord(c) == c \notin {"", " ", "\n", "/", "\\", ":", "-", "[", "]", "."}
\* [A-Za-z0-9_-]
IsKeyChar(c) == IsWord(c) \/ c = "-"
\* \b before position j (j = Len(text) + 1: at the end of the text)
WordBoundary(text, j) == IsWord(At(text, j - 1)) # IsWord(At(text, j))

\* The i flag: the upper-case letters compare as their lower-case forms.
LowerChar(c) ==
  CASE c = "A" -> "a"
    [] c = "B" -> "b"
    [] c = "C" -> "c"
    [] c = "K" -> "k"
    [] c = "S" -> "s"
    [] OTHER -> c

\* The literal `word` matches at position i.
MatchesAt(text, i, word) ==
  \A k \in 1..Len(word) : LowerChar(At(text, i + k - 1)) = word[k]

\* The length of the match of (sk-|Bearer\s+|token[_-]|api[_-]key[_-]) at
\* position i, 0 when none of them matches.
PrefixLength(text, i) ==
  IF MatchesAt(text, i, <<"s", "k", "-">>) THEN 3
  ELSE IF MatchesAt(text, i, <<"b", "e", "a", "r", "e", "r">>) /\ SpaceRun(text, i + 6) > 0
  THEN 6 + SpaceRun(text, i + 6)
  ELSE IF MatchesAt(text, i, <<"t", "o", "k", "e", "n">>) /\ At(text, i + 5) \in {"_", "-"}
  THEN 6
  ELSE IF /\ MatchesAt(text, i, <<"a", "p", "i">>) /\ At(text, i + 3) \in {"_", "-"}
          /\ MatchesAt(text, i + 4, <<"k", "e", "y">>) /\ At(text, i + 7) \in {"_", "-"}
  THEN 8
  ELSE 0

RECURSIVE KeyRun(_, _)
KeyRun(text, i) ==
  IF i > Len(text) \/ ~IsKeyChar(text[i]) THEN 0 ELSE 1 + KeyRun(text, i + 1)

\* {16,}
MinSecretLength == 16

\* The length of the match of [A-Za-z0-9_-]{16,}\b at position j: the
\* longest run of at least 16 characters that ends at a word boundary.
SecretLength(text, j) ==
  LET ends == {k \in MinSecretLength..KeyRun(text, j) : WordBoundary(text, j + k)}
  IN IF ends = {} THEN 0 ELSE CHOOSE k \in ends : \A other \in ends : other <= k

\* The length of the match of the whole pattern at position i, 0 if none.
SecretAt(text, i) ==
  IF WordBoundary(text, i) /\ PrefixLength(text, i) > 0
        /\ SecretLength(text, i + PrefixLength(text, i)) > 0
  THEN PrefixLength(text, i) + SecretLength(text, i + PrefixLength(text, i))
  ELSE 0

\* sanitized.replace(/\b(sk-|...)[A-Za-z0-9_-]{16,}\b/gi, '[redacted]')
RECURSIVE ReplaceSecrets(_, _)
ReplaceSecrets(text, i) ==
  IF i > Len(text) THEN <<>>
  ELSE IF SecretAt(text, i) > 0
  THEN RedactedMark \o ReplaceSecrets(text, i + SecretAt(text, i))
  ELSE <<text[i]>> \o ReplaceSecrets(text, i + 1)

\* The three replacements, in the order of the code.
Redact(text) ==
  ReplaceSecrets(ReplaceWindowsPaths(ReplaceUnixPaths(text, 1), 1), 1)

\* sanitizeErrorMessage without the test of a blank result.
sanitizeErrorMessageUntrimmed(errorMessage) ==
  IF FalsyValue(errorMessage) \/ errorMessage.t # "string" THEN UnknownErrorMessage
  ELSE Redact(errorMessage.s)

sanitizeErrorMessage(errorMessage) ==
  IF FalsyValue(errorMessage) \/ errorMessage.t # "string" THEN UnknownErrorMessage
  ELSE IF trim(Redact(errorMessage.s)) = <<>> THEN OperationErrorMessage
  ELSE Redact(errorMessage.s)

\* error.message || fallback
OrElse(message, fallback) == IF FalsyValue(message) THEN Str(fallback) ELSE message

GenerationFallback ==
  <<"A", "n", " ", "e", "r", "r", "o", "r", " ", "o", "c", "c", "u", "r",
      "r", "e", "d">>
ConnectionFallback ==
  <<"C", "o", "n", "n", "e", "c", "t", "i", "o", "n", " ", "f", "a", "i",
      "l", "e", "d">>

\* The parts the messages are made of: a letter, a space, a slash, a
\* drive, the prefix of an API key, and sixteen characters of a key.
MessageParts ==
  { <<"e">>, <<" ">>, <<"/">>, <<"C", ":", "\\">>, <<"s", "k", "-">>,
    [k \in 1..MinSecretLength |-> "a"] }
MaxParts == 3
RECURSIVE Join(_)
Join(parts) == IF parts = <<>> THEN <<>> ELSE Head(parts) \o Join(Tail(parts))
\* The message of the error caught: missing, a number, or a text.
Messages ==
  {Undefined, Num(42)}
    \cup {Str(Join(parts)) : parts \in UNION {[1..k -> MessageParts] : k \in 0..MaxParts}}

(***************************************************************************)
(* The AbortController the calls create (src/src/my-command.js, the        *)
(* polyfill installed when the host has no AbortController).  A host is    *)
(* the controller it offers and, for the polyfill, whether its fetch       *)
(* registered a handler with signal.addEventListener('abort', handler).    *)
(***************************************************************************)
NativeHost == [controller |-> "native", abortHandler |-> FALSE]
Hosts ==
  {NativeHost} \cup {[controller |-> "polyfill", abortHandler |-> h] : h \in BOOLEAN}

\* controller.abort() rejects the pending fetch: a native controller
\* does; the polyfill sets signal.aborted and calls the registered
\* handler, if there is one.
AbortRejects(h) == h.controller = "native" \/ h.abortHandler

(***************************************************************************)
(* The command (src/src/my-command.js, onGenerateMockData): the handlers   *)
(* of the 'generate' and 'test-connection' events of the window, each      *)
(* event starting a call of its own, and the user's edits of the           *)
(* document while the calls wait.                                          *)
(***************************************************************************)
\* The events handled in one run of the command, and the edits made.
MaxCalls == 2
MaxEdits == 1
\* The layers and overrides of the documents of this part.
MaxSelected == 2

\* The configs the window sends with a 'generate' event.
CommandConfigs ==
  { c \in Configs :
      /\ c.endpoint = Undefined
      /\ c.prompt = Str(<<"p">>)
      /\ c.keys.t = "array" /\ c.keys.items \in {<<>>, <<KeyA>>} }

\* A successful reply with a JSON body.
JsonReply(envelope) ==
  [ok |-> TRUE, status |-> 200, statusText |-> <<"OK">>, text |-> <<>>,
   isJson |-> TRUE, json |-> envelope]
\* The replies to the calls of the command: an error status, a body
\* without a response field, a text that is not JSON, {} and {"a": "v"}.
CommandReplies ==
  { [ok |-> FALSE, status |-> 500, statusText |-> StatusText(500), text |-> <<"Server error">>,
     isJson |-> FALSE, json |-> NoEnvelope],
    JsonReply([t |-> "object", response |-> Undefined]),
    JsonReply([t |-> "object", response |-> Str(<<"This is not valid JSON">>)]),
    JsonReply([t |-> "object", response |-> Str(<<"{", "}">>)]),
    JsonReply([t |-> "object",
               response |-> Str(<<"{", "\"", "a", "\"", ":", " ", "\"", "v", "\"", "}">>)]) }
CommandRejections == {Err("Error", <<"Network error">>)}

\* The error of a reply that is not a success or has no response field.
ReplyError(r) == IF ~r.ok THEN HttpError(r) ELSE EnvelopeError(r)

\* The outcome of a generateMockData call whose fetch resolved with reply
\* r, parsed being ParseResponse of the reply: [error, value], error
\* being the error the call throws.
Outcome(r, parsed, endpoint) ==
  IF ReplyError(r) # NoError THEN [error |-> Catch(ReplyError(r), endpoint), value |-> NoValue]
  ELSE IF parsed.error # NoError
  THEN [error |-> Catch(parsed.error, endpoint), value |-> NoValue]
  ELSE [error |-> NoError, value |-> parsed.value]
Thrown(e, endpoint) == [error |-> Catch(e, endpoint), value |-> NoValue]

\* A call started by an event: the handler, the config of a 'generate'
\* event, where the call is ("Awaiting", "Injected", "Failed", "Reported"),
\* its timer, the requests it sent, the error generateMockData threw,
\* whether injectData was called and what testConnection returned.
Call(handler, c, st) ==
  [handler |-> handler, config |-> c, state |-> st,
   timer |-> IF st = "Awaiting" THEN "armed" ELSE "none",
   requests |-> IF st = "Awaiting" THEN 1 ELSE 0,
   error |-> IF handler = "generate" THEN InputError(c) ELSE NoError,
   injected |-> FALSE, success |-> FALSE]

\* The finally block of a call that does not clear its timer.
FinallyLeavingTimer(call) == call

\* finally { clearTimeout(timeoutId) }
Finally(call) == [call EXCEPT !.timer = "cleared"]

\* The rest of the 'generate' handler after the await, for the outcome of
\* generateMockData: [heap, results, writes, threw, injected].  A handler
\* that injects whatever the outcome.
AfterGenerationRegardless(heap, arg, outcome) ==
  LET st == injectData(heap, arg, [t |-> outcome.value.t, m |-> outcome.value.m])
  IN [heap |-> st.heap, results |-> st.results, writes |-> st.writes,
      threw |-> st.threw \/ outcome.error # NoError, injected |-> TRUE]

\* The error of the await goes to the catch block; a value goes to
\* injectData(selection.layers, mockData).
AfterGeneration(heap, arg, outcome) ==
  IF outcome.error # NoError
  THEN [heap |-> heap, results |-> EmptyResults, writes |-> <<>>, threw |-> TRUE,
        injected |-> FALSE]
  ELSE LET st == injectData(heap, arg, [t |-> outcome.value.t, m |-> outcome.value.m])
       IN [heap |-> st.heap, results |-> st.results, writes |-> st.writes,
           threw |-> st.threw, injected |-> TRUE]

\* The writes of call i.
TagRun(ws, i) ==
  [j \in 1..Len(ws) |-> [run |-> i, binding |-> ws[j].binding, layer |-> ws[j].layer,
                         override |-> ws[j].override, value |-> ws[j].value]]

\* The user's edits: a layer renamed, a child removed from its parent, a
\* text layer added to a layer that is not a text layer.
Renamed(heap, id, name) == [heap EXCEPT ![id].name = name]
Without(seq, id) == SelectSeq(seq, LAMBDA k : k # id)
Removed(heap, id) == [k \in 1..Len(heap) |-> [heap[k] EXCEPT !.layers = Without(@, id)]]
Added(heap, parent, name) ==
  Append([heap EXCEPT ![parent].layers = Append(@, Len(heap) + 1)],
         [name |-> name, type |-> "Text", text |-> OldText, layers |-> <<>>,
          overrides |-> <<>>])
IsChild(heap, id) == \E k \in 1..Len(heap) : \E j \in 1..Len(heap[k].layers) : heap[k].layers[j] = id

(***************************************************************************)
(* State.                                                                  *)
(***************************************************************************)
VARIABLES
  doc,        \* the document: the heap of layer objects
  selection,  \* the `layers` argument (selection.layers)
  data,       \* the data passed to the last call
  variableLayers, \* the bindings the last call resolved
  before,     \* the document as it was when the last call started
  results,    \* the report returned by the last injectData call
  writes,     \* the slots assigned by the last call
  preview,    \* the sequence returned by the last previewInjection call
  variableNames, \* the sequences returned by the extractVariableNames calls
  requiredKeys, \* the keys passed to validateData
  validation, \* the result of the validateData call
  config,     \* the argument of the generateMockData call
  state,      \* where the generateMockData call is
  timer,      \* the timeout timer: "none", "armed" or "cleared"
  requests,   \* the number of requests sent to the endpoint
  response,   \* the reply of the service
  returned,   \* the value generateMockData returned
  error,      \* the error generateMockData threw
  warned,     \* the keys named in the warning logged
  saved,      \* the value stored under the settings key
  settings,   \* the settings loadSettings returned
  thrown,     \* the message of the error a handler caught
  shown,      \* the messages passed to the window and to the alert
  host,       \* the AbortController and fetch of the host
  calls,      \* the calls the events of the window started
  edits,      \* the number of edits the user made
  pc          \* "idle", then the outcome of the call made

validationVars == <<requiredKeys, validation>>

generatorVars == <<config, state, timer, requests, response, returned, error, warned>>

commandVars == <<saved, settings, thrown, shown, host, calls, edits>>

vars == <<doc, selection, data, variableLayers, before, results, writes, preview, variableNames,
          requiredKeys, validation, config, state, timer, requests, response, returned,
          error, warned, saved, settings, thrown, shown, host, calls, edits, pc>>

\* No generateMockData call has been made.
GeneratorIdle ==
  /\ config = NoConfig
  /\ state = "Idle"
  /\ timer = "none"
  /\ requests = 0
  /\ response = NoResponse
  /\ returned = NoValue
  /\ error = NoError
  /\ warned = <<>>

\* The command has not run.
CommandIdle ==
  /\ saved = NothingStored
  /\ settings = NoSettings
  /\ thrown = Undefined
  /\ shown = <<>>
  /\ host = NativeHost
  /\ calls = <<>>
  /\ edits = 0

Init ==
  /\ \E n \in 0..MaxElements : \E t \in 0..(MaxElements - n) :
       \E names \in [1..n -> LayerNames], types \in [1..n -> LayerTypes] :
         \E par \in Parents(n, types), ov \in [1..t -> Overrides], owner \in Owners(n, t, types) :
           /\ doc = Document(n, names, types, par, ov, owner)
           /\ selection \in Arguments(doc, MaxElements - n - t)
  /\ data = [t |-> "undefined", m |-> EmptyMap]
  /\ variableLayers = <<>>
  /\ before = doc
  /\ results = EmptyResults
  /\ writes = <<>>
  /\ preview = <<>>
  /\ variableNames = <<>>
  /\ requiredKeys = <<>>
  /\ validation = NoValidation
  /\ GeneratorIdle
  /\ CommandIdle
  /\ pc = "idle"

\* injectData(selection.layers, d)
InjectData(d) ==
  /\ pc = "idle"
  /\ LET st == injectData(doc, selection, d)
     IN /\ doc' = st.heap
        /\ results' = st.results
        /\ writes' = st.writes
        /\ pc' = IF st.threw THEN "injectThrew" ELSE "injected"
  /\ data' = d
  /\ variableLayers' = findVariableLayers(doc, selection)
  /\ before' = doc
  /\ UNCHANGED <<selection, preview, variableNames>>
  /\ UNCHANGED <<validationVars, generatorVars, commandVars>>

\* previewInjection(selection.layers, d)
PreviewInjection(d) ==
  /\ pc = "idle"
  /\ LET r == previewInjection(doc, selection, d)
     IN /\ doc' = r.heap
        /\ preview' = r.preview
        /\ pc' = IF r.threw THEN "previewThrew" ELSE "previewed"
  /\ data' = d
  /\ variableLayers' = findVariableLayers(doc, selection)
  /\ before' = doc
  /\ UNCHANGED <<selection, results, writes, variableNames>>
  /\ UNCHANGED <<validationVars, generatorVars, commandVars>>

\* extractVariableNames(selection.layers), called once and then once more
\* on the unchanged document.
ExtractVariableNames ==
  /\ pc \in {"idle", "extracted"}
  /\ variableNames' = Append(variableNames, extractVariableNames(doc, selection))
  /\ variableLayers' = findVariableLayers(doc, selection)
  /\ pc' = IF pc = "idle" THEN "extracted" ELSE "extractedAgain"
  /\ UNCHANGED <<doc, selection, data, before, results, writes, preview>>
  /\ UNCHANGED <<validationVars, generatorVars, commandVars>>

Next ==
  \/ \E d \in DataValues : InjectData(d)
  \/ \E d \in DataValues : PreviewInjection(d)
  \/ ExtractVariableNames

Spec == Init /\ [][Next]_vars

(***************************************************************************)
(* validateData applied to each data value and each requiredKeys array.    *)
(***************************************************************************)
ValidateInit ==
  /\ doc = NoDocument
  /\ selection = NoSelection
  /\ data \in ValidatedValues
  /\ requiredKeys \in RequiredKeys
  /\ validation = NoValidation
  /\ variableLayers = <<>>
  /\ before = doc
  /\ results = EmptyResults
  /\ writes = <<>>
  /\ preview = <<>>
  /\ variableNames = <<>>
  /\ GeneratorIdle
  /\ CommandIdle
  /\ pc = "idle"

\* validateData(data, requiredKeys)
ValidateData ==
  /\ pc = "idle"
  /\ validation' = validateData(data, requiredKeys)
  /\ pc' = "validated"
  /\ UNCHANGED <<doc, selection, data, variableLayers, before, results, writes, preview,
                 variableNames, requiredKeys>>
  /\ UNCHANGED <<generatorVars, commandVars>>

ValidateNext == ValidateData

ValidateSpec == ValidateInit /\ [][ValidateNext]_vars

(***************************************************************************)
(* One generateMockData call, step by step: the synchronous start, then    *)
(* the continuations after each await, and the timeout timer.              *)
(***************************************************************************)
injectorVars ==
  <<doc, selection, data, variableLayers, before, results, writes, preview, variableNames, pc>>

GenInit ==
  /\ doc = NoDocument
  /\ selection = NoSelection
  /\ data = [t |-> "undefined", m |-> EmptyMap]
  /\ variableLayers = <<>>
  /\ before = doc
  /\ results = EmptyResults
  /\ writes = <<>>
  /\ preview = <<>>
  /\ variableNames = <<>>
  /\ requiredKeys = <<>>
  /\ validation = NoValidation
  /\ GeneratorIdle
  /\ CommandIdle
  /\ pc = "idle"

\* generateMockData(c) up to the end of the validation of the inputs.
GenerateMockData(c) ==
  /\ state = "Idle"
  /\ config' = c
  /\ error' = InputError(c)
  /\ state' = IF InputError(c) # NoError THEN "Failed" ELSE "Building"
  /\ UNCHANGED <<timer, requests, response, returned, warned>>
  /\ UNCHANGED <<injectorVars, validationVars, commandVars>>

\* A call that sends its request again after a failure.
SendRequestRetrying ==
  /\ state \in {"Building", "Failed"}
  /\ InputError(config) = NoError
  /\ timer' = "armed"
  /\ requests' = requests + 1
  /\ state' = "AwaitingResponse"
  /\ UNCHANGED <<config, response, returned, error, warned>>
  /\ UNCHANGED <<injectorVars, validationVars, commandVars>>

\* The prompt and the payload are built, the timer is created and the
\* request is sent; the call waits for the reply.
SendRequest ==
  /\ state = "Building"
  /\ timer' = "armed"
  /\ requests' = requests + 1
  /\ state' = "AwaitingResponse"
  /\ UNCHANGED <<config, response, returned, error, warned>>
  /\ UNCHANGED <<injectorVars, validationVars, commandVars>>

\* An error raised inside the try block: the catch handler throws, and the
\* finally block clears the timer.
Throw(e) ==
  /\ error' = Catch(e, EndpointOf(config))
  /\ state' = "Failed"
  /\ timer' = "cleared"
  /\ UNCHANGED <<config, requests, returned, warned>>
  /\ UNCHANGED <<injectorVars, validationVars, commandVars>>

\* The fetch resolves with reply r; the call waits for its body.
FetchResolves(r) ==
  /\ state = "AwaitingResponse"
  /\ response' = r
  /\ state' = "AwaitingBody"
  /\ UNCHANGED <<config, timer, requests, returned, error, warned>>
  /\ UNCHANGED <<injectorVars, validationVars, commandVars>>

\* The fetch is rejected with error e.
FetchRejects(e) ==
  /\ state = "AwaitingResponse"
  /\ Throw(e)
  /\ UNCHANGED response

\* The body has arrived: the error text of a failed reply, or the JSON of
\* a successful one, whose response field is tested.
BodyArrives ==
  /\ state = "AwaitingBody"
  /\ LET e == IF ~response.ok THEN HttpError(response) ELSE EnvelopeError(response)
     IN IF e # NoError THEN Throw(e)
        ELSE /\ state' = "ParsingResponse"
             /\ UNCHANGED <<config, timer, requests, returned, error, warned>>
             /\ UNCHANGED <<injectorVars, validationVars, commandVars>>
  /\ UNCHANGED response

\* The generated text is parsed, the keys are tested, the value returned.
ParseAndReturn ==
  /\ state = "ParsingResponse"
  /\ \E r \in {ParseResponse(response, config.keys.items)} :
        IF r.error # NoError THEN Throw(r.error)
        ELSE /\ state' = "Done"
             /\ returned' = r.value
             /\ warned' = r.warned
             /\ timer' = "cleared"
             /\ UNCHANGED <<config, requests, error>>
             /\ UNCHANGED <<injectorVars, validationVars, commandVars>>
  /\ UNCHANGED response

\* The timer fires while the call waits: controller.abort() rejects the
\* pending fetch or body read with an AbortError.
TimerFires ==
  /\ state \in {"AwaitingResponse", "AwaitingBody"}
  /\ timer = "armed"
  /\ Throw(Err("AbortError", <<"The operation was aborted">>))
  /\ UNCHANGED response

GenNext ==
  \/ \E c \in Configs : GenerateMockData(c)
  \/ SendRequest
  \/ \E r \in Replies : FetchResolves(r)
  \/ \E e \in Rejections : FetchRejects(e)
  \/ BodyArrives
  \/ ParseAndReturn
  \/ TimerFires

GenSpec == GenInit /\ [][GenNext]_vars

(***************************************************************************)
(* loadSettings applied to each stored value.                              *)
(***************************************************************************)
SettingsInit ==
  /\ doc = NoDocument
  /\ selection = NoSelection
  /\ data = [t |-> "undefined", m |-> EmptyMap]
  /\ variableLayers = <<>>
  /\ before = doc
  /\ results = EmptyResults
  /\ writes = <<>>
  /\ preview = <<>>
  /\ variableNames = <<>>
  /\ requiredKeys = <<>>
  /\ validation = NoValidation
  /\ GeneratorIdle
  /\ saved \in StoredValues
  /\ settings = NoSettings
  /\ thrown = Undefined
  /\ shown = <<>>
  /\ host = NativeHost
  /\ calls = <<>>
  /\ edits = 0
  /\ pc = "idle"

\* loadSettings(): settingForKey returns the stored value, or throws.
LoadSettings(throws) ==
  /\ pc = "idle"
  /\ settings' = loadSettings(saved, throws)
  /\ pc' = IF throws THEN "loadCaught" ELSE "loaded"
  /\ UNCHANGED <<doc, selection, data, variableLayers, before, results, writes, preview,
                 variableNames, saved, thrown, shown, host, calls, edits>>
  /\ UNCHANGED <<validationVars, generatorVars>>

SettingsNext == \E throws \in BOOLEAN : LoadSettings(throws)

SettingsSpec == SettingsInit /\ [][SettingsNext]_vars

(***************************************************************************)
(* sanitizeErrorMessage, called directly and by the catch blocks of the    *)
(* 'generate' and 'test-connection' handlers, for each message.            *)
(***************************************************************************)
SanitizeInit ==
  /\ doc = NoDocument
  /\ selection = NoSelection
  /\ data = [t |-> "undefined", m |-> EmptyMap]
  /\ variableLayers = <<>>
  /\ before = doc
  /\ results = EmptyResults
  /\ writes = <<>>
  /\ preview = <<>>
  /\ variableNames = <<>>
  /\ requiredKeys = <<>>
  /\ validation = NoValidation
  /\ GeneratorIdle
  /\ CommandIdle
  /\ pc = "idle"

Passed(via, message) == [via |-> via, message |-> message]

\* What every step of this part leaves alone.
SanitizeFrame ==
  /\ UNCHANGED <<doc, selection, data, variableLayers, before, results, writes, preview,
                 variableNames, saved, settings, host, calls, edits>>
  /\ UNCHANGED <<validationVars, generatorVars>>

\* sanitizeErrorMessage(m)
SanitizeErrorMessage(m) ==
  /\ pc = "idle"
  /\ thrown' = m
  /\ shown' = Append(shown, Passed("return", sanitizeErrorMessage(m)))
  /\ pc' = "sanitized"
  /\ SanitizeFrame

\* The catch block of the 'generate' handler, for an error of message m:
\* the sanitized message goes to window.showError and to showAlert.
GenerateCatch(m) ==
  /\ pc = "idle"
  /\ thrown' = m
  /\ \E sanitizedMessage \in {sanitizeErrorMessage(OrElse(m, GenerationFallback))} :
       shown' = shown \o <<Passed("showError", sanitizedMessage),
                           Passed("showAlert", sanitizedMessage)>>
  /\ pc' = "generateCaught"
  /\ SanitizeFrame

\* The catch block of the 'test-connection' handler: the sanitized
\* message goes to window.showConnectionStatus.
TestConnectionCatch(m) ==
  /\ pc = "idle"
  /\ thrown' = m
  /\ \E sanitizedMessage \in {sanitizeErrorMessage(OrElse(m, ConnectionFallback))} :
       shown' = Append(shown, Passed("showConnectionStatus", sanitizedMessage))
  /\ pc' = "connectionCaught"
  /\ SanitizeFrame

SanitizeNext ==
  \/ \E m \in Messages : SanitizeErrorMessage(m)
  \/ \E m \in Messages : GenerateCatch(m)
  \/ \E m \in Messages : TestConnectionCatch(m)

SanitizeSpec == SanitizeInit /\ [][SanitizeNext]_vars

(***************************************************************************)
(* One generateMockData call on each host, with the scheduling of the      *)
(* JavaScript run time: the synchronous steps of the call run, and a       *)
(* timer that stays armed fires.  Nothing obliges the service to reply.    *)
(***************************************************************************)
GenLiveInit ==
  /\ doc = NoDocument
  /\ selection = NoSelection
  /\ data = [t |-> "undefined", m |-> EmptyMap]
  /\ variableLayers = <<>>
  /\ before = doc
  /\ results = EmptyResults
  /\ writes = <<>>
  /\ preview = <<>>
  /\ variableNames = <<>>
  /\ requiredKeys = <<>>
  /\ validation = NoValidation
  /\ GeneratorIdle
  /\ saved = NothingStored
  /\ settings = NoSettings
  /\ thrown = Undefined
  /\ shown = <<>>
  /\ host \in Hosts
  /\ calls = <<>>
  /\ edits = 0
  /\ pc = "idle"

\* The timer fires while the call waits: () => controller.abort().  The
\* pending fetch or body read is rejected with an AbortError if the abort
\* reaches it; if not, the timer is spent and the call goes on waiting.
TimeoutExpires ==
  /\ state \in {"AwaitingResponse", "AwaitingBody"}
  /\ timer = "armed"
  /\ IF AbortRejects(host)
     THEN Throw(Err("AbortError", <<"The operation was aborted">>))
     ELSE /\ timer' = "fired"
          /\ UNCHANGED <<config, state, requests, returned, error, warned>>
          /\ UNCHANGED <<injectorVars, validationVars, commandVars>>
  /\ UNCHANGED response

GenLiveNext ==
  \/ \E c \in Configs : GenerateMockData(c)
  \/ SendRequest
  \/ \E r \in Replies : FetchResolves(r)
  \/ \E e \in Rejections : FetchRejects(e)
  \/ BodyArrives
  \/ ParseAndReturn
  \/ TimeoutExpires

\* The request is sent in the turn that validated the inputs; an armed
\* timer fires; the parse runs in the turn that received the body, so a
\* call does not stay in ParsingResponse (this is weak fairness of
\* ParseAndReturn, which is enabled exactly in that state).
GenLiveSpec ==
  /\ GenLiveInit
  /\ [][GenLiveNext]_vars
  /\ WF_vars(SendRequest)
  /\ WF_vars(TimeoutExpires)
  /\ []<>(state # "ParsingResponse")

(***************************************************************************)
(* One run of the command: the selection is validated and resolved, then   *)
(* the window's events start calls, the service answers them, and the      *)
(* user edits the document.                                                *)
(***************************************************************************)
CommandInit ==
  /\ \E n \in 1..MaxSelected : \E t \in 0..(MaxSelected - n) :
       \E names \in [1..n -> LayerNames], types \in [1..n -> LayerTypes] :
         \E par \in Parents(n, types), ov \in [1..t -> Overrides], owner \in Owners(n, t, types) :
           /\ doc = Document(n, names, types, par, ov, owner)
           /\ selection \in Arguments(doc, 0)
  /\ Len(findVariableLayers(doc, selection)) > 0
  /\ variableLayers = findVariableLayers(doc, selection)
  /\ variableNames = <<extractVariableNames(doc, selection)>>
  /\ data = [t |-> "undefined", m |-> EmptyMap]
  /\ before = doc
  /\ results = EmptyResults
  /\ writes = <<>>
  /\ preview = <<>>
  /\ requiredKeys = <<>>
  /\ validation = NoValidation
  /\ GeneratorIdle
  /\ saved = NothingStored
  /\ settings = loadSettings(saved, FALSE)
  /\ thrown = Undefined
  /\ shown = <<>>
  /\ host = NativeHost
  /\ calls = <<>>
  /\ edits = 0
  /\ pc = "idle"

\* What no step of a run of the command changes.
CommandFrame ==
  /\ UNCHANGED <<selection, variableLayers, before, preview, variableNames, pc>>
  /\ UNCHANGED <<validationVars, generatorVars>>
  /\ UNCHANGED <<saved, settings, thrown, shown, host>>

\* The tree as the command resolved it when it started.
ResolvedTree == before

\* The tree injectData is given: selection.layers as it is at the call.
SelectedTree == doc

\* The handler of call i continues after its await with `outcome`.
Continue(i, outcome) ==
  \E after \in {AfterGeneration(SelectedTree, selection, outcome)} :
    /\ doc' = IF after.injected THEN after.heap ELSE doc
    /\ results' = IF after.injected THEN after.results ELSE results
    /\ writes' = writes \o TagRun(after.writes, i)
    /\ data' = IF after.injected THEN [t |-> outcome.value.t, m |-> outcome.value.m] ELSE data
    /\ calls' = [calls EXCEPT ![i] =
                   [Finally(@) EXCEPT !.state = IF after.threw THEN "Failed" ELSE "Injected",
                                       !.error = outcome.error,
                                       !.injected = after.injected]]
    /\ UNCHANGED edits
    /\ CommandFrame

\* A 'generate' event with config c: generateMockData validates c and
\* either throws or sends its request and waits.
GenerateEvent(c) ==
  /\ Len(calls) < MaxCalls
  /\ calls' = Append(calls, Call("generate", c,
                                 IF InputError(c) # NoError THEN "Failed" ELSE "Awaiting"))
  /\ UNCHANGED <<doc, data, results, writes, edits>>
  /\ CommandFrame

\* The service replies to the generate call i.
ServiceReplies(i, r) ==
  /\ calls[i].handler = "generate"
  /\ calls[i].state = "Awaiting"
  /\ \E parsed \in {ParseResponse(r, calls[i].config.keys.items)} :
       \E outcome \in {Outcome(r, parsed, EndpointOf(calls[i].config))} :
         Continue(i, outcome)

\* The fetch of the generate call i is rejected.
FetchFails(i, e) ==
  /\ calls[i].handler = "generate"
  /\ calls[i].state = "Awaiting"
  /\ \E outcome \in {Thrown(e, EndpointOf(calls[i].config))} : Continue(i, outcome)

\* The timer of the generate call i fires.
TimerEnds(i) ==
  /\ calls[i].handler = "generate"
  /\ calls[i].state = "Awaiting"
  /\ calls[i].timer = "armed"
  /\ \E outcome \in {Thrown(Err("AbortError", <<"The operation was aborted">>),
                              EndpointOf(calls[i].config))} : Continue(i, outcome)

\* A 'test-connection' event: testConnection sends its request and waits.
TestConnectionEvent ==
  /\ Len(calls) < MaxCalls
  /\ calls' = Append(calls, Call("test-connection", NoConfig, "Awaiting"))
  /\ UNCHANGED <<doc, data, results, writes, edits>>
  /\ CommandFrame

\* testConnection returns: response.ok when the service replied, false
\* when the fetch was rejected or the timer fired.
TestConnectionReturns(i, how) ==
  /\ calls[i].handler = "test-connection"
  /\ calls[i].state = "Awaiting"
  /\ calls' = [calls EXCEPT ![i] =
                 [Finally(@) EXCEPT !.state = "Reported", !.success = (how = "ok")]]
  /\ UNCHANGED <<doc, data, results, writes, edits>>
  /\ CommandFrame

\* The user renames a layer.
RenameLayer(id, name) ==
  /\ edits < MaxEdits
  /\ id \in 1..Len(doc)
  /\ doc[id].name # name
  /\ doc' = Renamed(doc, id, name)
  /\ edits' = edits + 1
  /\ UNCHANGED <<data, results, writes, calls>>
  /\ CommandFrame

\* The user removes a layer from its parent.
RemoveLayer(id) ==
  /\ edits < MaxEdits
  /\ IsChild(doc, id)
  /\ doc' = Removed(doc, id)
  /\ edits' = edits + 1
  /\ UNCHANGED <<data, results, writes, calls>>
  /\ CommandFrame

\* The user adds a text layer to a layer.
AddLayer(parent, name) ==
  /\ edits < MaxEdits
  /\ parent \in 1..Len(doc)
  /\ doc[parent].type # "Text"
  /\ doc' = Added(doc, parent, name)
  /\ edits' = edits + 1
  /\ UNCHANGED <<data, results, writes, calls>>
  /\ CommandFrame

CommandNext ==
  \/ \E c \in CommandConfigs : GenerateEvent(c)
  \/ \E i \in 1..Len(calls) : \E r \in CommandReplies : ServiceReplies(i, r)
  \/ \E i \in 1..Len(calls) : \E e \in CommandRejections : FetchFails(i, e)
  \/ \E i \in 1..Len(calls) : TimerEnds(i)
  \/ TestConnectionEvent
  \/ \E i \in 1..Len(calls) :
       \E how \in {"ok", "not ok", "rejected", "timeout"} : TestConnectionReturns(i, how)
  \/ \E id \in 1..Len(doc) : \E name \in LayerNames : RenameLayer(id, name)
  \/ \E id \in 1..Len(doc) : RemoveLayer(id)
  \/ \E parent \in 1..Len(doc) : \E name \in LayerNames : AddLayer(parent, name)

CommandSpec == CommandInit /\ [][CommandNext]_vars

(***************************************************************************)
(* Vocabulary of the properties.                                           *)
(***************************************************************************)
\* The bindings of the call: those of the document as the call found it.
Bindings == variableLayers

StartsWithMarker(name) == name.t = "string" /\ Len(name.s) > 0 /\ name.s[1] = "$"

\* data holds a non-null value for the variable named by `name` ('$' + v).
HasData(name) ==
  /\ StartsWithMarker(name)
  /\ data.t = "object"
  /\ Tail(name.s) \in DOMAIN data.m
  /\ data.m[Tail(name.s)].t \notin {"null", "undefined"}

DataFor(name) == data.m[Tail(name.s)]

LayerIds == 1..Len(doc)

\* The override slots of the document.
OverrideSlots == UNION {{<<id, k>> : k \in 1..Len(before[id].overrides)} : id \in LayerIds}

\* The value data holds for binding i, whether it is present and non-null,
\* and whether the binding's target can be written: a Text layer for a
\* text binding, an override with the binding's identifier on the owning
\* instance for an override binding.
Value(i) == Lookup(data, Bindings[i].variableName)
Present(i) == Value(i).t \notin {"undefined", "null"}
Writable(i) ==
  LET b == Bindings[i]
  IN IF b.type = "SymbolOverride"
     THEN /\ before[b.layer].type = "SymbolInstance"
          /\ \E k \in 1..Len(before[b.layer].overrides) :
               StrictEq(before[b.layer].overrides[k].id, b.overrideId)
     ELSE before[b.layer].type = "Text"
Failed(i) == Present(i) /\ ~Writable(i)
Succeeds(i) == Present(i) /\ Writable(i)

\* The slot a binding is bound to: the layer's text or the override's value.
SlotValue(heap, b) ==
  IF b.override = 0 THEN heap[b.layer].text ELSE heap[b.layer].overrides[b.override].value

BindingIds == 1..Len(Bindings)
Returned == pc = "injected" /\ Len(Bindings) > 0

(***************************************************************************)
(* C1: after injectData has returned, every Text layer named '$' + v for   *)
(* which data holds a non-null value under v reads String(data[v]) (so     *)
(* layers sharing a variable name read the same), and every layer whose    *)
(* name does not start with '$' has the text it had before the call.       *)
(***************************************************************************)
C1_RoundTripAndFrame ==
  pc = "injected" =>
    /\ \A id \in LayerIds :
         (before[id].type = "Text" /\ HasData(before[id].name))
           => doc[id].text = String(DataFor(before[id].name))
    /\ \A id \in LayerIds :
         ~StartsWithMarker(before[id].name) => doc[id].text = before[id].text

\* A call that wrote a number's string form into a bound Text layer next to
\* a layer that is not bound.
C1_Witness ==
  /\ pc = "injected"
  /\ \E id \in LayerIds :
       /\ before[id].type = "Text" /\ HasData(before[id].name)
       /\ DataFor(before[id].name).t = "number"
       /\ doc[id].text = <<"4", "2">>
       /\ before[id].text = OldText
  /\ \E id \in LayerIds : ~StartsWithMarker(before[id].name) /\ doc[id].text = OldText

(***************************************************************************)
(* C2: injectData never raises: whatever the node argument and whatever    *)
(* the value passed as data, the call returns a report.                    *)
(***************************************************************************)
C2_NeverRaises == pc # "injectThrew"

(***************************************************************************)
(* C3: for every binding whose variable is absent from data or maps to     *)
(* null, injectData records one 'skipped' detail with reason 'No data      *)
(* available', counts it neither as success nor as failure, and the slot   *)
(* the binding is bound to (layer text, override value) is left unchanged. *)
(***************************************************************************)
C3_SkippedUntouched ==
  Returned =>
    /\ Len(results.details) = Len(Bindings)
    /\ \A i \in BindingIds :
         ~Present(i) =>
           /\ results.details[i].status = "skipped"
           /\ results.details[i].reason = "No data available"
           /\ results.details[i].variableName = Bindings[i].variableName
           /\ SlotValue(doc, Bindings[i]) = SlotValue(before, Bindings[i])
    /\ results.successCount + results.failureCount
         = Cardinality({i \in BindingIds : Present(i)})

C5_OverrideTargetsBound ==
  pc = "injected" =>
    \A sl \in OverrideSlots :
      LET o == before[sl[1]].overrides[sl[2]]
          now == doc[sl[1]].overrides[sl[2]]
      IN /\ HasData(o.affectedLayer) => now.value = String(DataFor(o.affectedLayer))
         /\ ~StartsWithMarker(o.affectedLayer) => now.value = o.value

(***************************************************************************)
(* C6: a binding with data whose target is not writable (a text binding of *)
(* a layer that is not a Text layer, an override binding whose identifier  *)
(* no override of the instance has) is counted in failureCount and not in  *)
(* successCount, gets a 'failed' detail, and writes no slot.               *)
(***************************************************************************)
C6_UnwritableFails ==
  Returned =>
    /\ \A i \in BindingIds :
         Failed(i) =>
           /\ results.details[i].status = "failed"
           /\ \A w \in 1..Len(writes) : writes[w].binding # i
    /\ results.failureCount = Cardinality({i \in BindingIds : Failed(i)})
    /\ results.successCount = Cardinality({i \in BindingIds : Succeeds(i)})
    /\ (\A i \in BindingIds : ~Succeeds(i)) => doc = before

\* A call in which a text binding of a non-Text layer and an override
\* binding without a matching override both failed.
C6_Witness ==
  /\ Returned
  /\ \E i \in BindingIds :
       Failed(i) /\ Bindings[i].type \notin {"SymbolOverride", "Text"}
  /\ \E i \in BindingIds : Failed(i) /\ Bindings[i].type = "SymbolOverride"
  /\ results.failureCount >= 2
  /\ doc = before

(***************************************************************************)
(* C7: when the resolver finds no binding, injectData raises nothing and   *)
(* returns zero counts, no details and exactly one error entry; no layer   *)
(* and no override is changed.                                             *)
(***************************************************************************)
C7_NoBindings ==
  (pc \in {"injected", "injectThrew"} /\ Len(Bindings) = 0) =>
    /\ pc = "injected"
    /\ results.totalUpdated = 0 /\ results.successCount = 0 /\ results.failureCount = 0
    /\ results.details = <<>>
    /\ results.errors = <<"No variable layers found to update">>
    /\ doc = before

\* A call on a document with layers and overrides but no variable name,
\* with data that would raise on a lookup.
C7_Witness ==
  /\ pc = "injected" /\ Len(Bindings) = 0
  /\ Len(doc) > 0
  /\ OverrideSlots # {}
  /\ data.t = "null"
  /\ Len(results.errors) = 1

(***************************************************************************)
(* C8: previewInjection leaves the document as it was (names, kinds,       *)
(* texts, children, override identifiers and values), and the sequence it  *)
(* returns has one entry per binding, in resolver order.                   *)
(***************************************************************************)
C8_PreviewPure ==
  /\ pc \in {"previewed", "previewThrew"} => doc = before
  /\ pc = "previewed" =>
       /\ Len(preview) = Len(Bindings)
       /\ \A i \in BindingIds :
            /\ preview[i].variableName = Bindings[i].variableName
            /\ preview[i].layerName = before[Bindings[i].layer].name
            /\ preview[i].layerType = Bindings[i].type

\* A preview of two or more bindings, one of which inject would write.
C8_Witness ==
  /\ pc = "previewed"
  /\ Len(preview) >= 2
  /\ \E i \in BindingIds : Succeeds(i) /\ preview[i].willUpdate
  /\ doc = before

(***************************************************************************)
(* C9: a preview entry has willUpdate = true exactly when injectData, on   *)
(* the same document and data, records 'success' for that binding.         *)
(***************************************************************************)
C9_PreviewAgreesWithInject ==
  pc = "previewed" =>
    LET report == injectData(before, selection, data).results
    IN \A i \in BindingIds :
         preview[i].willUpdate <=> report.details[i].status = "success"

\* The layers of a list (0: a null entry) in depth-first pre-order.
RECURSIVE PreOrder(_, _)
PreOrder(heap, list) ==
  IF list = <<>> THEN <<>>
  ELSE (IF Head(list) = 0 THEN <<>>
        ELSE <<Head(list)>> \o PreOrder(heap, heap[Head(list)].layers))
       \o PreOrder(heap, Tail(list))

Rank(order, id) == CHOOSE r \in 1..Len(order) : order[r] = id

\* The names that count as variable names, stated on the document.
MarkedLayers == {id \in LayerIds : StartsWithMarker(doc[id].name)}
MarkedOverrides ==
  {sl \in OverrideSlots :
     /\ doc[sl[1]].type = "SymbolInstance"
     /\ StartsWithMarker(doc[sl[1]].overrides[sl[2]].affectedLayer)}

(***************************************************************************)
(* C10: findVariableLayers returns the bindings in depth-first pre-order   *)
(* (a layer's own binding, then its override bindings in override order,   *)
(* then its descendants, then the next sibling), each marked name exactly  *)
(* once: as many bindings as layers whose name starts with '$' plus        *)
(* overrides of instances whose affected-layer name starts with '$'; the   *)
(* bare '$' is a match with the empty variable name, null entries are      *)
(* skipped and children are visited whether or not the layer matched.      *)
(***************************************************************************)
C10_PreOrderBindings ==
  LET b == findVariableLayers(doc, selection)
      order == PreOrder(doc, AsArray(selection))
  IN /\ Len(b) = Cardinality(MarkedLayers) + Cardinality(MarkedOverrides)
     /\ \A i \in 1..Len(b) :
          /\ IF b[i].override = 0
             THEN /\ b[i].layer \in MarkedLayers
                  /\ b[i].variableName = Tail(doc[b[i].layer].name.s)
                  /\ b[i].type = doc[b[i].layer].type
             ELSE /\ <<b[i].layer, b[i].override>> \in MarkedOverrides
                  /\ b[i].variableName
                       = Tail(doc[b[i].layer].overrides[b[i].override].affectedLayer.s)
                  /\ b[i].type = "SymbolOverride"
          /\ \A j \in (i + 1)..Len(b) :
               \/ Rank(order, b[i].layer) < Rank(order, b[j].layer)
               \/ b[i].layer = b[j].layer /\ b[i].override < b[j].override

\* An instance named by the bare '$' that yields its own binding, then its
\* override's, then its child's.
C10_Witness ==
  LET b == findVariableLayers(doc, selection)
  IN /\ Len(b) = 3
     /\ b[1].override = 0 /\ b[1].variableName = <<>>
     /\ b[2].override = 1 /\ b[2].layer = b[1].layer
     /\ b[3].override = 0 /\ b[3].layer \in {doc[b[1].layer].layers[k] : k \in 1..Len(doc[b[1].layer].layers)}

(***************************************************************************)
(* C11: extractVariableNames returns the variable names of all bindings,   *)
(* each exactly once, in the order of their first occurrence among the     *)
(* bindings, and a second call on the unchanged tree returns the same      *)
(* sequence as the first.                                                  *)
(***************************************************************************)
FirstOccurrence(name) ==
  CHOOSE i \in BindingIds :
    /\ Bindings[i].variableName = name
    /\ \A j \in 1..(i - 1) : Bindings[j].variableName # name

IsObject == data.t \in {"object", "array"}
Absent == SelectSeq(requiredKeys, LAMBDA key : key \notin DOMAIN data.m)

C12_ValidateData ==
  pc = "validated" =>
    /\ validation.isValid = (IsObject /\ Absent = <<>>)
    /\ (IsObject /\ Absent # <<>>) =>
         validation.hasMissingKeys /\ validation.missingKeys = Absent
    /\ requiredKeys = <<>> => (validation.isValid = IsObject)

\* An object that has "a" but not "b" was validated against <<"b", "a">>.
C12_Witness ==
  /\ pc = "validated"
  /\ data.t = "object"
  /\ requiredKeys = <<KeyB, KeyA>>
  /\ KeyA \in DOMAIN data.m
  /\ validation.missingKeys = <<KeyB>>
  /\ ~validation.isValid

\* C12 as stated: the same, but with an empty requiredKeys list the result
\* is valid for every data value, whatever its shape.
C12_EmptyRequiredKeysAlwaysValid ==
  pc = "validated" =>
    /\ requiredKeys # <<>> => (validation.isValid = (IsObject /\ Absent = <<>>))
    /\ (IsObject /\ Absent # <<>>) =>
         validation.hasMissingKeys /\ validation.missingKeys = Absent
    /\ requiredKeys = <<>> => validation.isValid

(***************************************************************************)
(* Vocabulary of the generator properties.                                 *)
(***************************************************************************)
\* The failure kind of an error, read off the fixed start of its message.
Kind(e) ==
  CASE e = NoError -> "None"
    [] e.message[1] \in {"Keys array is required and must not be empty",
                         "Prompt is required and must be a non-empty string"} -> "InvalidInput"
    [] e.message[1] = "Request timeout after " -> "Timeout"
    [] e.message[1] = "Failed to connect to Ollama at " -> "ConnectionError"
    [] e.message[1] = "HTTP " -> "UpstreamError"
    [] e.message[1] = "Invalid response from Ollama: missing response field" -> "MalformedEnvelope"
    [] e.message[1] = "Failed to parse JSON from LLM response: " -> "ParseError"
    [] OTHER -> "Unclassified"

\* The message contains the text part.
Carries(message, part) ==
  \E i \in 0..(Len(message) - Len(part)) : SubSeq(message, i + 1, i + Len(part)) = part

KeysMissing == config.keys.t # "array" \/ config.keys.items = <<>>
PromptMissing ==
  \/ config.prompt.t # "string"
  \/ \A i \in 1..Len(config.prompt.s) : config.prompt.s[i] \in {" ", "\n"}

\* The JSON body of the reply and its response field.
Envelope == response.json
Raw == response.json.response
FieldPresent == Envelope.t = "object" /\ Raw.t # "undefined"
\* The reply is a success whose response field holds a generated text.
HasText == response.ok /\ response.isJson /\ FieldPresent /\ Raw.t = "string" /\ Raw.s # <<>>
Parsable == HasText /\ JSONParse(CleanText(Raw.s)).ok
RequestedKeys == {config.keys.items[i] : i \in 1..Len(config.keys.items)}

(***************************************************************************)
(* C13: when the key list is missing, not a sequence or empty, or the      *)
(* prompt is missing, not a string or blank after trimming, the call fails *)
(* with InvalidInput, and no request has been sent and no timer created.   *)
(***************************************************************************)
C13_InvalidInputBeforeRequest ==
  (state # "Idle" /\ (KeysMissing \/ PromptMissing)) =>
    /\ state = "Failed"
    /\ Kind(error) = "InvalidInput"
    /\ requests = 0
    /\ timer = "none"

\* A call with keys and a blank prompt has failed.
C13_Witness ==
  /\ state = "Failed"
  /\ ~KeysMissing
  /\ config.prompt = Str(<<" ", "\n">>)
  /\ Kind(error) = "InvalidInput"
  /\ requests = 0

C15_RejectionIsConnectionError ==
  [][(\E e \in Rejections : FetchRejects(e)) =>
       /\ Kind(error') = "ConnectionError"
       /\ Carries(error'.message, EndpointOf(config))]_vars

(***************************************************************************)
(* C16: for every reply with a non-success status and every body text, the *)
(* call fails with UpstreamError, and the message carries the status code  *)
(* and the body text, or the status text when the body is empty.           *)
(***************************************************************************)
C16_StatusIsUpstreamError ==
  [][(BodyArrives /\ ~response.ok) =>
       /\ Kind(error') = "UpstreamError"
       /\ Carries(error'.message, Digits(response.status))
       /\ Carries(error'.message,
                  IF response.text # <<>> THEN response.text ELSE response.statusText)]_vars

(***************************************************************************)
(* C17: for every successful reply whose generated text cannot be parsed   *)
(* after the fences are stripped, the call fails with ParseError, the      *)
(* message includes the message of the parser and the raw text, and no     *)
(* data is returned.                                                       *)
(***************************************************************************)
C17_UnparsableIsParseError ==
  [][(ParseAndReturn /\ HasText /\ ~Parsable) =>
       /\ state' = "Failed"
       /\ Kind(error') = "ParseError"
       /\ Carries(error'.message, <<"Unexpected token">>)
       /\ Carries(error'.message, Raw.s)
       /\ returned' = NoValue]_vars

(***************************************************************************)
(* C18: when a successful reply does not carry the response field, the     *)
(* call fails with MalformedEnvelope and returns no data; when the field   *)
(* is there, the failure kind is not MalformedEnvelope.                    *)
(***************************************************************************)
C18_MalformedEnvelope ==
  [][(BodyArrives /\ response.ok /\ response.isJson) =>
       /\ ~FieldPresent =>
            state' = "Failed" /\ Kind(error') = "MalformedEnvelope" /\ returned' = NoValue
       /\ FieldPresent => Kind(error') # "MalformedEnvelope"]_vars

(***************************************************************************)
(* C19: when the generated text parses and the parsed result lacks some or *)
(* all of the requested keys, the call does not fail: it warns and returns *)
(* the parsed result as parsed.                                            *)
(***************************************************************************)
C19_MissingKeysStillReturned ==
  [][(ParseAndReturn /\ Parsable
        /\ \E key \in RequestedKeys : key \notin DOMAIN JSONParse(CleanText(Raw.s)).value.m) =>
       /\ state' = "Done"
       /\ error' = NoError
       /\ warned' # <<>>
       /\ returned' = JSONParse(CleanText(Raw.s)).value]_vars

(***************************************************************************)
(* C20: for every JSON object or array wrapped in a leading and a trailing *)
(* code fence, with the json tag, another tag or none, the call returns    *)
(* the value of the unwrapped document, and a document that is not fenced  *)
(* is returned as it parses.                                               *)
(***************************************************************************)
Structured(document) == JSONParse(document).value.t \in {"object", "array"}

C20_FenceStripping ==
  [][ParseAndReturn =>
       \A d \in ValidDocuments :
         (Structured(d) /\ (Raw = Str(d) \/ \E tag \in Tags : Raw = Str(Fenced(tag, d)))) =>
           state' = "Done" /\ returned' = JSONParse(d).value]_vars

(***************************************************************************)
(* C30: in every report injectData returns, totalUpdated = successCount;   *)
(* when there is a binding, details has one entry per binding in resolver  *)
(* order, successCount + failureCount + the number of skipped details is   *)
(* the number of bindings, and errors is empty; successCount is the number *)
(* of text and override slots written.                                     *)
(***************************************************************************)
DetailsWith(status) == {i \in 1..Len(results.details) : results.details[i].status = status}
SlotsWritten == {<<writes[j].layer, writes[j].override>> : j \in 1..Len(writes)}

C30_ReportAccounting ==
  pc = "injected" =>
    /\ results.totalUpdated = results.successCount
    /\ Len(Bindings) > 0 =>
         /\ Len(results.details) = Len(Bindings)
         /\ \A i \in BindingIds :
              /\ results.details[i].variableName = Bindings[i].variableName
              /\ results.details[i].layerName = before[Bindings[i].layer].name
         /\ results.successCount + results.failureCount + Cardinality(DetailsWith("skipped"))
              = Len(Bindings)
         /\ results.errors = <<>>
    /\ results.successCount = Cardinality(SlotsWritten)

(***************************************************************************)
(* C23: loadSettings discards invalid stored settings wholesale: when a    *)
(* stored field has the wrong type (endpoint, model, last prompt, last     *)
(* keys), the endpoint is not a URL, or an entry of the last keys is not   *)
(* a string, the settings returned equal the defaults in every field.      *)
(***************************************************************************)
WrongType(field, type) == field.t \notin {"undefined", type}
MalformedEndpoint == saved.endpoint.t = "string" /\ ~ParsesAsURL(saved.endpoint.s)
NonStringEntry ==
  saved.lastKeys.t = "array"
    /\ \E i \in 1..Len(saved.lastKeys.items) : saved.lastKeys.items[i].t # "string"
InvalidStored ==
  \/ WrongType(saved.endpoint, "string")
  \/ WrongType(saved.model, "string")
  \/ WrongType(saved.lastPrompt, "string")
  \/ WrongType(saved.lastKeys, "array")
  \/ MalformedEndpoint
  \/ NonStringEntry

C23_InvalidSettingsDiscarded ==
  (pc = "loaded" /\ saved.t = "object" /\ InvalidStored) => settings = defaultSettings

(***************************************************************************)
(* C24: every message the 'generate' and 'test-connection' handlers pass   *)
(* to the window or to the alert is the output of sanitizeErrorMessage     *)
(* and is never empty or blank; a missing, non-string or empty input       *)
(* yields the fixed unknown-error message, and an input that is only       *)
(* whitespace after the redaction yields the fixed operation-error         *)
(* message.                                                                *)
(***************************************************************************)
Blank(text) == \A i \in 1..Len(text) : IsSpace(text[i])
NotAText(message) ==
  message.t # "string" \/ message = Str(<<>>)
\* The argument the handler that ran gave to sanitizeErrorMessage.
Sanitized ==
  CASE pc = "generateCaught" -> OrElse(thrown, GenerationFallback)
    [] pc = "connectionCaught" -> OrElse(thrown, ConnectionFallback)
    [] OTHER -> thrown

C24_MessagesSanitized ==
  pc \in {"sanitized", "generateCaught", "connectionCaught"} =>
    /\ Len(shown) = IF pc = "generateCaught" THEN 2 ELSE 1
    /\ \A i \in 1..Len(shown) :
         /\ shown[i].message = sanitizeErrorMessage(Sanitized)
         /\ ~Blank(shown[i].message)
         /\ NotAText(Sanitized) => shown[i].message = UnknownErrorMessage
         /\ (~NotAText(Sanitized) /\ Blank(Redact(Sanitized.s)))
              => shown[i].message = OperationErrorMessage

C24_Witness ==
  /\ pc = "generateCaught"
  /\ thrown = Str(<<" ">>)
  /\ shown = <<Passed("showError", OperationErrorMessage),
               Passed("showAlert", OperationErrorMessage)>>

(***************************************************************************)
(* C26: a generateMockData call follows Idle -> Building ->                *)
(* AwaitingResponse -> (ParsingResponse -> Done | Failed): it sends        *)
(* exactly one request when the validation of the inputs passes and none   *)
(* otherwise, Done and Failed are terminal, and after Failed no request    *)
(* is sent.                                                                *)
(***************************************************************************)
\* The phase of the call: waiting for the body of the reply is part of
\* AwaitingResponse.
Phase(st) == IF st = "AwaitingBody" THEN "AwaitingResponse" ELSE st
PhaseSteps ==
  { <<"Idle", "Building">>, <<"Idle", "Failed">>,
    <<"Building", "AwaitingResponse">>,
    <<"AwaitingResponse", "AwaitingResponse">>,
    <<"AwaitingResponse", "ParsingResponse">>, <<"AwaitingResponse", "Failed">>,
    <<"ParsingResponse", "Done">>, <<"ParsingResponse", "Failed">> }
\* The number of requests the call has sent is the one its phase calls for.
RequestsAsPhase ==
  requests = IF state \in {"Idle", "Building"} \/ KeysMissing \/ PromptMissing THEN 0 ELSE 1

C26_CallStateMachine ==
  [][/\ state \notin {"Done", "Failed"}
     /\ <<Phase(state), Phase(state')>> \in PhaseSteps
     /\ (Phase(state) = "Idle" /\ Phase(state') = "Failed") <=> (KeysMissing' \/ PromptMissing')
     /\ requests' = requests + IF Phase(state) = "Building" THEN 1 ELSE 0
     /\ RequestsAsPhase'
     /\ state' = "Failed" => requests' = requests]_vars

\* A call that sent its one request has failed on the reply's status.
C26_Witness ==
  /\ state = "Failed"
  /\ requests = 1
  /\ Kind(error) = "UpstreamError"
  /\ timer = "cleared"

(***************************************************************************)
(* C29: the call fails with ConnectionError only if the transport failed   *)
(* without delivering a reply; whenever a reply was received, whatever     *)
(* its status, body text, envelope and parsed value, the call ends Done    *)
(* or fails with UpstreamError, MalformedEnvelope, ParseError or Timeout.  *)
(***************************************************************************)
ReplyReceived == response # NoResponse

C29_SoundClassification ==
  /\ (state = "Failed" /\ Kind(error) = "ConnectionError") => ~ReplyReceived
  /\ (state = "Failed" /\ ReplyReceived) =>
       Kind(error) \in {"UpstreamError", "MalformedEnvelope", "ParseError", "Timeout"}

(***************************************************************************)
(* C27: every generateMockData call that passes the validation of its      *)
(* inputs eventually reaches Done or Failed, on every host, the one with   *)
(* the plugin's AbortController polyfill included: if the service never    *)
(* replies, the expiry of the timeout fails the call.                      *)
(***************************************************************************)
C27_EventuallySettles ==
  (state = "Building") ~> (state \in {"Done", "Failed"})

(***************************************************************************)
(* Vocabulary of the properties of the command.                            *)
(***************************************************************************)
CallIds == 1..Len(calls)
GenerateCalls == {i \in CallIds : calls[i].handler = "generate"}
\* Call i fails in this step: at its event, or after its await.
FailsNow(i) ==
  /\ calls'[i].state = "Failed"
  /\ i \in CallIds => calls[i].state = "Awaiting"
\* Call i injects in this step.
InjectsNow(i) == i \in CallIds /\ ~calls[i].injected /\ calls'[i].injected
\* The user edits the document in this step.
EditsNow == edits' # edits

(***************************************************************************)
(* C21: when generateMockData fails, with any kind, the 'generate'         *)
(* handler does not call injectData in that run and no text or override    *)
(* value differs from its value before; a run injects only after its       *)
(* generation returned a value.                                            *)
(***************************************************************************)
C21_FailureStopsPipeline ==
  [][/\ \A i \in 1..Len(calls') :
          FailsNow(i) =>
            /\ Kind(calls'[i].error) # "None"
            /\ ~calls'[i].injected
            /\ doc' = doc
            /\ writes' = writes
            /\ results' = results
     /\ \A i \in 1..Len(calls') :
          calls'[i].injected => Kind(calls'[i].error) = "None" /\ calls'[i].state = "Injected"
     /\ (writes' # writes \/ (doc' # doc /\ ~EditsNow)) => \E i \in CallIds : InjectsNow(i)]_vars

\* Two runs on a document that binds "a": the first one wrote, the second
\* failed on a reply without a response field and wrote nothing.
C21_Witness ==
  /\ Len(calls) = 2
  /\ calls[1].state = "Injected"
  /\ calls[2].state = "Failed"
  /\ Kind(calls[2].error) = "MalformedEnvelope"
  /\ ~calls[2].injected
  /\ writes # <<>>
  /\ \A k \in 1..Len(writes) : writes[k].run = 1

(***************************************************************************)
(* C22: generate-then-inject runs never overlap: while an earlier run is   *)
(* still waiting for the service, a run started by a later 'generate'      *)
(* event has sent no request and written nothing.                          *)
(***************************************************************************)
C22_RunsNeverOverlap ==
  \A i, j \in GenerateCalls :
    (i < j /\ calls[i].state = "Awaiting") =>
      /\ calls[j].requests = 0
      /\ ~calls[j].injected
      /\ \A k \in 1..Len(writes) : writes[k].run # j

(***************************************************************************)
(* C25: no timer leaks: the timer of a generateMockData or testConnection  *)
(* call that has settled, by returning, failing or timing out, is not      *)
(* armed, and the number of armed timers is the number of calls still      *)
(* waiting.                                                                *)
(***************************************************************************)
Armed == {i \in CallIds : calls[i].timer = "armed"}
Waiting == {i \in CallIds : calls[i].state = "Awaiting"}

NewWrites == SubSeq(writes', Len(writes) + 1, Len(writes'))
\* The report and the writes of this step are those of the bindings bs of
\* the tree heap.
ReportsBindings(bs, heap) ==
  /\ Len(results'.details) = Len(bs)
  /\ \A k \in 1..Len(bs) :
       /\ results'.details[k].variableName = bs[k].variableName
       /\ results'.details[k].layerName = heap[bs[k].layer].name
       /\ results'.details[k].status = "skipped"
            <=> Lookup(data', bs[k].variableName).t \in {"undefined", "null"}
  /\ (Len(bs) = 0) <=> (results'.errors # <<>>)
  /\ \A k \in 1..Len(NewWrites) :
       /\ NewWrites[k].binding \in 1..Len(bs)
       /\ NewWrites[k].layer = bs[NewWrites[k].binding].layer

C28_InjectsLiveTree ==
  [][\A i \in CallIds :
       InjectsNow(i) => ReportsBindings(findVariableLayers(doc, selection), doc)]_vars

\* A run has written a layer that the command did not resolve when it
\* started: the layer took its variable name while the run was waiting.
C28_Witness ==
  /\ edits > 0
  /\ \E i \in CallIds : calls[i].state = "Injected"
  /\ \E k \in 1..Len(writes) :
       \A b \in 1..Len(variableLayers) : variableLayers[b].layer # writes[k].layer

====
